---- MODULE Spec2Model ----
(***************************************************************************)
(* asitop (Rust): the telemetry sampling pipeline of src/main.rs and       *)
(* src/powermetrics.rs as a state machine.                                 *)
(*                                                                         *)
(*   - the supervisor PowermetricsGuard and the child processes it owns,   *)
(*   - the artifact files the children append to, byte by byte,            *)
(*   - the extractor parse_powermetrics reading the tail of the artifact,  *)
(*   - main, wait_for_reading and the poll loop run_ui,                    *)
(*   - the session state AppState (dedup by timestamp, sample count).      *)
(*                                                                         *)
(* An artifact is a sequence of bytes.  A record is three bytes, a header, *)
(* a payload carrying the timestamp, a trailer; the producer ends every    *)
(* record with the NUL sentinel.  A fragment decodes exactly when it is a  *)
(* whole record: a record cut at either end does not.                      *)
(*                                                                         *)
(* What the model takes from outside the source files:                     *)
(*   - std::process::Child: kill on a running child of one's own ends it   *)
(*     (SIGKILL), wait returns once the child has exited and reaps it;     *)
(*     both are harmless on a child already reaped.                        *)
(*   - PowermetricsReader (imported by main.rs, defined in no source file  *)
(*     at hand) holds the session token and its parse() is                 *)
(*     parse_powermetrics on that token, as the design document has it.    *)
(*   - A panic unwinds (the default profile), so destructors run.          *)
(*   - The producer stamps each record with a timestamp of its choice: the *)
(*     wall clock it reads may be set back.                                *)
(***************************************************************************)
EXTENDS Integers, Sequences, FiniteSets, TLC

\* ------------------------------------------------------------- bounds
\* Child processes the model may spawn (the initial one and the restarts).
MaxSpawns == 3
\* Seconds of wall clock: session tokens are 1..MaxClock.
MaxClock == 2
\* Sample timestamps are 1..MaxTs.
MaxTs == 2
\* A child stops appending once its artifact holds this many bytes.
MaxFileLen == 8
\* The largest restart_after_samples (--max-count) the model configures.
MaxMaxCount == 2
\* Fragments of an extractor input drawn by SpecExtract.
MaxFrags == 3

\* Clusters and cores of one class in a normalizer input.
MaxClusters == 2
MaxCores == 2
\* How far around each threshold the numeric inputs of SpecNormalize go.
MaxOff == 3
\* SpecStats: values pushed in one run (after the pushes the buffers start
\* with), the values themselves (10, 20, ...), the largest window of the
\* RollingAverage and the largest capacity of the History.
MaxPushes == 4
MaxVal == 4
MaxWindow == 3
MaxCap == 2
\* SpecSession: samples the session state takes in one run.
MaxThermalCode == 120
MaxIoCalls == 3
MaxAccepted == 3

\* ---------------------------------------------------- program constants
\* 1 MiB in the source, where a record is some tens of KiB; here a record
\* and its sentinel are 4 bytes, and the window is scaled with it so that
\* the window holds one whole record and cuts the one before it.
MAX_READ_BYTES == 6
MAX_ATTEMPTS == 300

\* The sentinel byte the extractor splits on.
NUL == 0
\* The first and the last byte of an encoded record.
Hdr == 1
Trl == 2
\* The payload byte of a record sampled at timestamp t.
TsByte(t) == Trl + t

Timestamps == 1..MaxTs
Tokens == 1..MaxClock
Pids == 1..MaxSpawns

None == <<>>
Some(x) == <<x>>
IsSome(o) == Len(o) = 1
Unwrap(o) == o[1]

Max2(a, b) == IF a >= b THEN a ELSE b

\* Result<Option<PowermetricsReading>>
ResNone == [tag |-> "None", timestamp |-> 0]
ResErr == [tag |-> "Err", timestamp |-> 0]
ResSome(reading) == [tag |-> "Some", timestamp |-> reading.timestamp]

\* ---------------------------------------------------------- extractor
\* plist::from_reader::<_, RawSnapshot>: Some(raw) for a whole record,
\* None (the Err the caller discards) for anything else.
from_reader(chunk) ==
    IF Len(chunk) = 3 /\ chunk[1] = Hdr /\ chunk[3] = Trl /\ chunk[2] > Trl
    THEN Some([timestamp |-> chunk[2] - Trl])
    ELSE None

convert_snapshot(raw) == [timestamp |-> raw.timestamp]

\* data.split(|b| *b == 0): the fragments of data[i..], cur being the one
\* under construction.  n bytes with k sentinels give k + 1 fragments.
RECURSIVE SplitFrom(_, _, _)
SplitFrom(data, i, cur) ==
    IF i > Len(data) THEN <<cur>>
    ELSE IF data[i] = NUL THEN <<cur>> \o SplitFrom(data, i + 1, <<>>)
    ELSE SplitFrom(data, i + 1, Append(cur, data[i]))

NonEmptyChunk(c) == Len(c) > 0

\* .filter(|chunk| !chunk.is_empty()).collect()
Chunks(data) == SelectSeq(SplitFrom(data, 1, <<>>), NonEmptyChunk)

\* Mutant: the fragments are tried from the oldest on.
RECURSIVE FwdFirstDecodedFrom(_, _)
FwdFirstDecodedFrom(chunks, j) ==
    IF j > Len(chunks) THEN ResNone
    ELSE IF IsSome(from_reader(chunks[j]))
         THEN ResSome(convert_snapshot(Unwrap(from_reader(chunks[j]))))
         ELSE FwdFirstDecodedFrom(chunks, j + 1)

FwdFirstDecoded(chunks, i) == FwdFirstDecodedFrom(chunks, 1)

\* for chunk in chunks.iter().rev(): the first that decodes, from chunk i down.
RECURSIVE RevFirstDecoded(_, _)
RevFirstDecoded(chunks, i) ==
    IF i = 0 THEN ResNone
    ELSE IF IsSome(from_reader(chunks[i]))
         THEN ResSome(convert_snapshot(Unwrap(from_reader(chunks[i]))))
         ELSE RevFirstDecoded(chunks, i - 1)

\* Mutant: the length is not looked at.
ParseEarlyNoLen(openOk, len) == ~openOk

\* The early returns of parse_powermetrics: File::open failed, or len == 0.
ParseEarly(openOk, len) == ~openOk \/ len = 0

\* Mutant: the window is too short for a record and its sentinel.
SeekStartShort(len) == IF len > 2 THEN len - 2 ELSE 0

\* len.saturating_sub(MAX_READ_BYTES)
SeekStart(len) == IF len > MAX_READ_BYTES THEN len - MAX_READ_BYTES ELSE 0

\* read_to_end from position pos of a file holding bytes.
ReadWindow(bytes, pos) == SubSeq(bytes, pos + 1, Len(bytes))

\* Mutant: a failed read is an error whatever it has read.
ParseDataFailFast(readOk, data) ==
    IF ~readOk THEN ResErr
    ELSE IF Len(data) = 0 THEN ResNone
    ELSE LET chunks == Chunks(data) IN RevFirstDecoded(chunks, Len(chunks))

\* parse_powermetrics from read_to_end on: readOk is its result, data the
\* bytes it left in the buffer.
ParseData(readOk, data) ==
    IF ~readOk /\ Len(data) = 0 THEN ResErr
    ELSE IF Len(data) = 0 THEN ResNone
    ELSE LET chunks == Chunks(data) IN RevFirstDecoded(chunks, Len(chunks))

parse_powermetrics(openOk, len, readOk, data) ==
    IF ParseEarly(openOk, len) THEN ResNone ELSE ParseData(readOk, data)

\* ------------------------------------------------------------- state
VARIABLES
    pc,              \* where main / run_ui stands
    exit_status,     \* "none" while running, then "ok", "err" or "panic"
    main_error,      \* the error main returned: "none", "spawn", "parse",
                     \* "timeout" or "run_ui"
    result,          \* what run_ui returned: "none", "ok" or "err"
    created,         \* the objects main has constructed so far, and
                     \* "restored" once cleanup_terminal has run
    max_count,       \* Cli::max_count (0 until AppState::new takes the Cli)
    clock,           \* SystemTime::now(), in seconds, when last read
    timecode,        \* main's session token (0 before line 93)
    reader_timecode, \* the token PowermetricsReader reads under
    guard_child,     \* PowermetricsGuard::child : Option<Child>
    procs,           \* every child: "unborn", "running", "zombie", "reaped"
    proc_tok,        \* the token (-o path) each child was spawned with
    signalled,       \* the children sent SIGKILL before they were reaped
    kills,           \* Child::kill calls issued so far
    waits,           \* Child::wait calls issued so far
    peak_live,       \* the most children ever unreaped at one time
    files,           \* /tmp/asitop_powermetrics<token>, per token
    attempt,         \* wait_for_reading's loop counter
    rd_pos,          \* the open artifact's read position, -1 when none is open
    polled,          \* what the extractor returned last in this iteration
    accepted,        \* whether that sample was applied to the session state
    samples_taken,   \* AppState::samples_taken
    last_timestamp,  \* AppState::last_timestamp : Option<SystemTime>
    prev_session_ts, \* last_timestamp as the latest restart found it (history)
    running,         \* run_ui's loop flag
    needs_redraw,    \* run_ui's redraw flag
    last_draw,       \* what the latest iteration did at its redraw step:
                     \* "none" before the first, "drew", "skipped", "failed"
    ex_in,           \* SpecExtract: the environment's answers to one parse
    ex_out,          \* SpecExtract: what parse_powermetrics returned
    nz_in,           \* SpecNormalize: the call, a function and its arguments
    nz_out,          \* SpecNormalize: what the calls made so far returned
    ra,              \* SpecStats: a RollingAverage
    hist,            \* SpecStats: a History
    pushes,          \* SpecStats: the values pushed into both, oldest first
    app,             \* SpecSession: the AppState
    raw_sample,      \* SpecSession: the RawSnapshot last decoded for it
    calls,           \* SpecSession: how often each collaborator was called
    io               \* SpecIo: an IoSampler, the clock and what sample returned

vars == <<pc, exit_status, main_error, result, created, max_count, clock, timecode,
          reader_timecode, guard_child, procs, proc_tok, signalled, kills,
          waits, peak_live, files, attempt, rd_pos, polled, accepted,
          samples_taken, last_timestamp, prev_session_ts, running, needs_redraw,
          last_draw,
          ex_in, ex_out, nz_in, nz_out, ra, hist, pushes, app, raw_sample, calls,
          io>>

appVars == <<samples_taken, last_timestamp, prev_session_ts>>
osVars == <<guard_child, procs, proc_tok, signalled, kills, waits, peak_live, files>>
exVars == <<ex_in, ex_out, nz_in, nz_out, ra, hist, pushes, app, raw_sample, calls,
          io>>
normVars == <<nz_in, nz_out>>
statsVars == <<ra, hist, pushes>>
sessionVars == <<app, raw_sample, calls>>

\* An artifact: whether the path exists, its bytes, and (history) the
\* children that created it or appended to it.
NoFile == [exists |-> FALSE, bytes |-> <<>>, writers |-> {}]
NoInput == [openOk |-> FALSE, len |-> 0, readOk |-> FALSE, frags |-> <<>>]
Pending == [tag |-> "Pending", timestamp |-> 0]

\* The harness variables of a specification that is not running.
ExtractIdle == ex_in = NoInput /\ ex_out = Pending

\* ---------------------------------------------------------- normalizer
\* An idle ratio (f64) is [kind, milli]: NaN, an infinity, or the finite
\* value milli / 1000.  On these the arithmetic of ratio_to_pct is carried
\* out exactly, in units of 1 / 100000; f64 may round the product at an exact
\* half differently.
F64Kinds == {"fin", "nan", "inf", "-inf"}
RatioFin(m) == [kind |-> "fin", milli |-> m]
RatioNonFinite == {[kind |-> k, milli |-> 0] : k \in F64Kinds \ {"fin"}}

\* f64::clamp
clamp(v, lo, hi) == IF v < lo THEN lo ELSE IF v > hi THEN hi ELSE v

\* Mutant: the ratio is not clamped; `as u64` saturates at 0.
ratio_to_pct_unclamped(r) ==
    IF r.kind # "fin" THEN 0
    ELSE LET ratio == IF r.milli > 1000 THEN r.milli ELSE r.milli * 100
             pct == (100000 - ratio + 500) \div 1000
         IN IF pct < 0 THEN 0 ELSE pct

\* ratio_to_pct: ratio is in units of 1 / 100000, so idle_ratio / 100.0 is
\* the same number of smaller units; round() of a non-negative value.
ratio_to_pct(r) ==
    IF r.kind # "fin" THEN 0
    ELSE LET ratio == IF r.milli > 1000 THEN r.milli ELSE r.milli * 100
             clamped == clamp(ratio, 0, 100000)
         IN (100000 - clamped + 500) \div 1000

\* A frequency (f64) is [kind, mhz, half]: NaN, an infinity, some negative
\* value ("neg"), or the finite value mhz * 1000000 + half / 2 >= 0 with
\* 0 <= half < 2000000.
FreqFin(m, h) == [kind |-> "fin", mhz |-> m, half |-> h]
FreqNonPositive == {[kind |-> k, mhz |-> 0, half |-> 0] : k \in {"nan", "inf", "-inf", "neg"}}

\* u64 as f64 (exact below 2^53)
U64AsF64(n) == FreqFin(n \div 1000000, 2 * (n % 1000000))

\* Mutant: every positive value is taken as Hz.
display_freq_always_hz(x) ==
    IF x.kind # "fin" \/ (x.mhz = 0 /\ x.half = 0) THEN 0
    ELSE x.mhz + (IF x.half >= 1000000 THEN 1 ELSE 0)

\* display_freq: !is_finite() || <= 0.0, then >= 100_000.0, round() being
\* half away from zero: x / 1e6 rounds up from half = 1000000 on, x from an
\* odd half on.
display_freq(x) ==
    IF x.kind # "fin" \/ (x.mhz = 0 /\ x.half = 0) THEN 0
    ELSE IF x.mhz >= 1 \/ x.half >= 2 * 100000
         THEN x.mhz + (IF x.half >= 1000000 THEN 1 ELSE 0)
         ELSE (x.half + 1) \div 2

\* A cluster or core name is the sequence of its characters.
ClusterSuffix == <<"-", "C", "l", "u", "s", "t", "e", "r">>

\* format!("{prefix}-Cluster")
primary_label(prefix) == <<prefix>> \o ClusterSuffix

\* str::starts_with(char)
starts_with(name, prefix) == Len(name) > 0 /\ name[1] = prefix

RECURSIVE SumActive(_)
SumActive(xs) ==
    IF Len(xs) = 0 THEN 0 ELSE xs[1].active_pct + SumActive(Tail(xs))

RECURSIVE MaxFreq(_)
MaxFreq(xs) ==
    IF Len(xs) = 0 THEN 0 ELSE Max2(xs[1].freq_mhz, MaxFreq(Tail(xs)))

\* Mutant: the sum is not divided.
core_average_sum(cores) == SumActive(cores)

core_average(cores) ==
    IF Len(cores) = 0 THEN 0 ELSE SumActive(cores) \div Len(cores)

\* .max().unwrap_or(0)
core_max_freq(cores) == MaxFreq(cores)

\* (v > 0).then_some(v)
then_some(v) == IF v > 0 THEN Some(v) ELSE None

\* Option::unwrap_or
unwrap_or(o, d) == IF IsSome(o) THEN Unwrap(o) ELSE d

\* clusters.iter().find(|c| c.name == primary_label): its index, 0 if none.
FindPrimary(clusters, prefix) ==
    LET hits == {i \in 1..Len(clusters) : clusters[i].name = primary_label(prefix)}
    IN IF hits = {} THEN 0 ELSE CHOOSE i \in hits : \A j \in hits : i <= j

cluster_stats(clusters, prefix) ==
    LET p == FindPrimary(clusters, prefix)
        IsMatching(c) == starts_with(c.name, prefix)
        matching == SelectSeq(clusters, IsMatching)
    IN IF p > 0
       THEN [active |-> then_some(clusters[p].active_pct),
             freq |-> then_some(clusters[p].freq_mhz)]
       ELSE IF Len(matching) > 0
       THEN [active |-> IF SumActive(matching) > 0
                        THEN Some(SumActive(matching) \div Len(matching))
                        ELSE None,
             freq |-> then_some(MaxFreq(matching))]
       ELSE [active |-> None, freq |-> None]

aggregate_cluster(clusters, cores, prefix) ==
    LET core_avg == core_average(cores)
        core_freq == core_max_freq(cores)
        stats == cluster_stats(clusters, prefix)
    IN [active |-> IF core_avg > 0 THEN core_avg ELSE unwrap_or(stats.active, 0),
        freq |-> unwrap_or(stats.freq, core_freq)]

\* str::starts_with([a, b]): the first character is one of the two.
starts_with_any(name, chars) == Len(name) > 0 /\ name[1] \in chars

\* The CoreMetrics of a raw core.
core_metrics(core) ==
    [id |-> core.cpu, active_pct |-> ratio_to_pct(core.idle_ratio),
     freq_mhz |-> display_freq(core.freq_hz)]

\* The ClusterData of a raw cluster.
cluster_data(cluster) ==
    [name |-> cluster.name, active_pct |-> ratio_to_pct(cluster.idle_ratio),
     freq_mhz |-> display_freq(cluster.freq_hz)]

\* The loop of convert_snapshot over raw.processor.clusters from cluster i
\* on, acc holding e_clusters, p_clusters, e_cores and p_cores so far: a
\* cluster is pushed if its name begins with E or e, else if with P or p;
\* its cores go to e_cores if it begins with E or e and to p_cores if not.
RECURSIVE ClassifyFrom(_, _, _)
ClassifyFrom(clusters, i, acc) ==
    IF i > Len(clusters) THEN acc
    ELSE LET cluster == clusters[i]
             is_e == starts_with_any(cluster.name, {"E", "e"})
             is_p == starts_with_any(cluster.name, {"P", "p"})
             cores == [k \in 1..Len(cluster.cpus) |-> core_metrics(cluster.cpus[k])]
         IN ClassifyFrom(clusters, i + 1,
              [e_clusters |-> IF is_e THEN Append(acc.e_clusters, cluster_data(cluster))
                              ELSE acc.e_clusters,
               p_clusters |-> IF ~is_e /\ is_p
                              THEN Append(acc.p_clusters, cluster_data(cluster))
                              ELSE acc.p_clusters,
               e_cores |-> IF is_e THEN acc.e_cores \o cores ELSE acc.e_cores,
               p_cores |-> IF is_e THEN acc.p_cores ELSE acc.p_cores \o cores])

\* convert_snapshot, the CPU side: classification, then the two aggregates.
convert_clusters(clusters) ==
    LET c == ClassifyFrom(clusters, 1, [e_clusters |-> <<>>, p_clusters |-> <<>>,
                                       e_cores |-> <<>>, p_cores |-> <<>>])
        e == aggregate_cluster(c.e_clusters, c.e_cores, "E")
        p == aggregate_cluster(c.p_clusters, c.p_cores, "P")
    IN [e_cluster_active |-> e.active, e_cluster_freq_mhz |-> e.freq,
        p_cluster_active |-> p.active, p_cluster_freq_mhz |-> p.freq,
        e_cores |-> c.e_cores, p_cores |-> c.p_cores]

NoCall ==
    [fn |-> "none", ratio |-> RatioFin(0), freq |-> FreqFin(0, 0),
     clusters |-> <<>>, cores |-> <<>>, prefix |-> "E", raw |-> <<>>]
NoReturn == [calls |-> 0, first |-> 0, second |-> 0, cpu |-> convert_clusters(<<>>)]
NormalizeIdle == nz_in = NoCall /\ nz_out = NoReturn

\* --------------------------------------------------- rolling statistics
\* The values pushed are whole numbers, on which f64 sums are exact.
RECURSIVE SumSeq(_)
SumSeq(xs) == IF Len(xs) = 0 THEN 0 ELSE xs[1] + SumSeq(Tail(xs))

\* History::new
HistoryNew(max_len) == [data |-> <<>>, max_len |-> max_len]

\* Mutant: the oldest value goes only once the buffer is over its capacity.
HistoryPushLate(h, value) ==
    LET kept == IF Len(h.data) > h.max_len THEN Tail(h.data) ELSE h.data
    IN [h EXCEPT !.data = Append(kept, value)]

\* History::push; pop_front on an empty buffer does nothing.
HistoryPush(h, value) ==
    LET kept == IF Len(h.data) = h.max_len /\ Len(h.data) > 0
                THEN Tail(h.data) ELSE h.data
    IN [h EXCEPT !.data = Append(kept, value)]

\* History::values
HistoryValues(h) == h.data

\* RollingAverage::new
RollingAverageNew(max_len) ==
    [data |-> <<>>, max_len |-> max_len, sum |-> 0, push_count |-> 0]

\* Mutant: the evicted value stays in the running sum.
RollingAveragePushKeepSum(r, value) ==
    IF r.max_len = 0 THEN r
    ELSE LET full == Len(r.data) = r.max_len
             kept == IF full THEN Tail(r.data) ELSE r.data
             data == Append(kept, value)
             sum == r.sum + value
             count == r.push_count + 1
         IN [r EXCEPT !.data = data,
                      !.sum = IF count >= 1000 THEN SumSeq(data) ELSE sum,
                      !.push_count = IF count >= 1000 THEN 0 ELSE count]

\* Mutant: the push counter is never reset.
RollingAveragePushNoReset(r, value) ==
    IF r.max_len = 0 THEN r
    ELSE LET full == Len(r.data) = r.max_len
             kept == IF full THEN Tail(r.data) ELSE r.data
             data == Append(kept, value)
             sum == (IF full THEN r.sum - r.data[1] ELSE r.sum) + value
             count == r.push_count + 1
         IN [r EXCEPT !.data = data,
                      !.sum = IF count >= 1000 THEN SumSeq(data) ELSE sum,
                      !.push_count = count]

\* RollingAverage::push
RollingAveragePush(r, value) ==
    IF r.max_len = 0 THEN r
    ELSE LET full == Len(r.data) = r.max_len
             kept == IF full THEN Tail(r.data) ELSE r.data
             data == Append(kept, value)
             sum == (IF full THEN r.sum - r.data[1] ELSE r.sum) + value
             count == r.push_count + 1
         IN [r EXCEPT !.data = data,
                      !.sum = IF count >= 1000 THEN SumSeq(data) ELSE sum,
                      !.push_count = IF count >= 1000 THEN 0 ELSE count]

\* RollingAverage::average, the quotient sum / len as a fraction.
RollingAverageAverage(r) ==
    IF Len(r.data) = 0 THEN [num |-> 0, den |-> 1]
    ELSE [num |-> r.sum, den |-> Len(r.data)]

StatsIdle ==
    /\ ra = RollingAverageNew(0)
    /\ hist = HistoryNew(0)
    /\ pushes = <<>>

\* ------------------------------------------------- processes and guard
\* The guard, the process table and the artifacts as one value, so that an
\* operation made of several system calls is the composition of its calls.
World ==
    [child |-> guard_child, procs |-> procs, proc_tok |-> proc_tok,
     signalled |-> signalled, kills |-> kills, waits |-> waits,
     peak |-> peak_live, files |-> files]

Commit(w) ==
    /\ guard_child' = w.child
    /\ procs' = w.procs
    /\ proc_tok' = w.proc_tok
    /\ signalled' = w.signalled
    /\ kills' = w.kills
    /\ waits' = w.waits
    /\ peak_live' = w.peak
    /\ files' = w.files

Unreaped(pr) == {p \in DOMAIN pr : pr[p] \in {"running", "zombie"}}
Unborn(pr) == {p \in DOMAIN pr : pr[p] = "unborn"}
FreshPid(pr) == CHOOSE p \in Unborn(pr) : \A q \in Unborn(pr) : p <= q

\* Child::kill: SIGKILL ends a running child, which stays a zombie until it is
\* waited on; on a child already reaped nothing is signalled.
ChildKill(w, p) ==
    [w EXCEPT !.procs[p] = IF @ = "running" THEN "zombie" ELSE @,
              !.signalled = IF w.procs[p] \in {"running", "zombie"}
                            THEN @ \cup {p} ELSE @,
              !.kills = @ + 1]

\* Child::wait: returns once the child has exited, and reaps it.
ChildWait(w, p) ==
    [w EXCEPT !.procs[p] = IF @ \in {"running", "zombie"} THEN "reaped" ELSE @,
              !.waits = @ + 1]

\* if let Some(ref mut child) = self.child { child.kill().ok(); child.wait().ok(); }
KillAndReap(w) ==
    IF IsSome(w.child)
    THEN ChildWait(ChildKill(w, Unwrap(w.child)), Unwrap(w.child))
    ELSE w

\* What Child::kill can report for the guard's child: an error for a child
\* that was already waited for, in the versions of std that report one.
KillResults(w) ==
    IF IsSome(w.child) /\ w.procs[Unwrap(w.child)] = "reaped"
    THEN {"ok", "err"}
    ELSE {"ok"}

\* What Child::wait can report: the kernel may have collected the child
\* itself.
WaitResults == {"ok", "err"}

\* Mutant: the result is unwrapped.
IgnoredUnwrap(res) == IF res = "err" THEN "panic" ELSE "ok"

\* Result::ok() with its value dropped: the caller goes on whatever the call
\* reported.
Ignored(res) == "ok"

\* child.kill().ok(); child.wait().ok(); what the caller is left with after
\* the two calls reported killRes and waitRes.
TerminateOutcome(w, killRes, waitRes) ==
    IF ~IsSome(w.child) THEN "ok"
    ELSE IF Ignored(killRes) # "ok" THEN Ignored(killRes)
    ELSE Ignored(waitRes)

\* cleanup_powermetrics_files: every /tmp/asitop_powermetrics* is removed.
cleanup_powermetrics_files(w) ==
    [w EXCEPT !.files = [t \in Tokens |-> NoFile]]

\* Command::spawn of run_powermetrics succeeding: child p runs, writing to
\* the artifact of token tok.
Spawned(w, tok, p) ==
    LET w1 == [w EXCEPT !.procs[p] = "running", !.proc_tok[p] = tok]
    IN [w1 EXCEPT !.peak = Max2(@, Cardinality(Unreaped(w1.procs)))]

\* Mutant: the artifacts of earlier sessions are left in place.
run_powermetrics_keep_files(w, tok, spawnOk, p) ==
    IF spawnOk THEN Spawned(w, tok, p) ELSE w

\* run_powermetrics: the world after it, spawnOk being Command::spawn's
\* result and p the pid of the child it returns.
run_powermetrics(w, tok, spawnOk, p) ==
    LET w0 == cleanup_powermetrics_files(w)
    IN IF spawnOk THEN Spawned(w0, tok, p) ELSE w0

\* PowermetricsGuard::new
GuardNew(w, p) == [w EXCEPT !.child = Some(p)]

\* Mutant: the replacement is spawned before the old child is killed.
GuardRestartSpawnFirst(w, tok, spawnOk, p) ==
    LET w1 == run_powermetrics(w, tok, spawnOk, p)
        w2 == KillAndReap(w1)
    IN IF spawnOk THEN [w2 EXCEPT !.child = Some(p)] ELSE w2

\* Mutant: the old child is killed once the new one is there.
GuardRestartKillOnSuccess(w, tok, spawnOk, p) ==
    LET w1 == run_powermetrics(w, tok, spawnOk, p)
    IN IF spawnOk THEN [KillAndReap(w1) EXCEPT !.child = Some(p)] ELSE w1

\* PowermetricsGuard::restart: self.child is assigned only past the `?`.
GuardRestart(w, tok, spawnOk, p) ==
    LET w1 == KillAndReap(w)
        w2 == run_powermetrics(w1, tok, spawnOk, p)
    IN IF spawnOk THEN [w2 EXCEPT !.child = Some(p)] ELSE w2

\* Mutant: stop leaves the handle in place.
GuardStopKeepChild(w) == KillAndReap(w)

\* PowermetricsGuard::stop
GuardStop(w) == [KillAndReap(w) EXCEPT !.child = None]

\* Mutant: the guard has no Drop.
GuardDropNothing(w) == w

\* impl Drop for PowermetricsGuard
GuardDrop(w) == KillAndReap(w)

\* ----------------------------------------------------------- IoSampler
\* Instants are milliseconds, counters whole numbers of MiB and rates
\* thousandths of MiB/s, rounded down.
MIN_SAMPLE_INTERVAL == 500

\* IoStats::default
IoZero ==
    [net_in_mbps |-> 0, net_out_mbps |-> 0, disk_read_mbps |-> 0,
     disk_write_mbps |-> 0]

\* IoSampler::new
IoSamplerNew ==
    [last_net |-> None, last_disk |-> None, last_instant |-> None,
     current |-> IoZero]

\* Mutant: the difference is taken as it is.
rate_from_delta_signed(current, previous, delta_ms) ==
    IF delta_ms <= 0 THEN 0
    ELSE IF current >= previous
    THEN ((current - previous) * 1000000) \div delta_ms
    ELSE 0 - (((previous - current) * 1000000) \div delta_ms)

\* rate_from_delta
rate_from_delta(current, previous, delta_ms) ==
    IF current <= previous \/ delta_ms <= 0 THEN 0
    ELSE ((current - previous) * 1000000) \div delta_ms

\* Mutant: the counters are read and the rates computed on every call.
IoSamplerSampleUnlimited(sp, now, net_totals, disk_totals) ==
    IF ~IsSome(sp.last_instant)
    THEN [sampler |-> [last_net |-> net_totals, last_disk |-> disk_totals,
                       last_instant |-> Some(now), current |-> IoZero],
          ret |-> IoZero, read |-> TRUE]
    ELSE LET delta == Max2(now - Unwrap(sp.last_instant), 1)
             s1 == IF IsSome(net_totals)
                   THEN [sp EXCEPT
                           !.current.net_in_mbps =
                               IF IsSome(sp.last_net)
                               THEN rate_from_delta(Unwrap(net_totals)[1],
                                                    Unwrap(sp.last_net)[1], delta)
                               ELSE @,
                           !.current.net_out_mbps =
                               IF IsSome(sp.last_net)
                               THEN rate_from_delta(Unwrap(net_totals)[2],
                                                    Unwrap(sp.last_net)[2], delta)
                               ELSE @,
                           !.last_net = net_totals]
                   ELSE sp
             s2 == IF IsSome(disk_totals)
                   THEN [s1 EXCEPT
                           !.current.disk_read_mbps =
                               IF IsSome(s1.last_disk)
                               THEN rate_from_delta(Unwrap(disk_totals)[1],
                                                    Unwrap(s1.last_disk)[1], delta)
                               ELSE @,
                           !.current.disk_write_mbps =
                               IF IsSome(s1.last_disk)
                               THEN rate_from_delta(Unwrap(disk_totals)[2],
                                                    Unwrap(s1.last_disk)[2], delta)
                               ELSE @,
                           !.last_disk = disk_totals]
                   ELSE s1
             s3 == [s2 EXCEPT !.last_instant = Some(now)]
         IN [sampler |-> s3, ret |-> s3.current, read |-> TRUE]

\* IoSampler::sample at instant now, net_totals and disk_totals being what
\* read_network_counters and read_disk_counters return if they are called:
\* the sampler after it, the IoStats returned, and whether the counters
\* were read.
IoSamplerSample(sp, now, net_totals, disk_totals) ==
    IF IsSome(sp.last_instant) /\ now - Unwrap(sp.last_instant) < MIN_SAMPLE_INTERVAL
    THEN [sampler |-> sp, ret |-> sp.current, read |-> FALSE]
    ELSE IF ~IsSome(sp.last_instant)
    THEN [sampler |-> [last_net |-> net_totals, last_disk |-> disk_totals,
                       last_instant |-> Some(now), current |-> IoZero],
          ret |-> IoZero, read |-> TRUE]
    ELSE LET delta == Max2(now - Unwrap(sp.last_instant), 1)
             s1 == IF IsSome(net_totals)
                   THEN [sp EXCEPT
                           !.current.net_in_mbps =
                               IF IsSome(sp.last_net)
                               THEN rate_from_delta(Unwrap(net_totals)[1],
                                                    Unwrap(sp.last_net)[1], delta)
                               ELSE @,
                           !.current.net_out_mbps =
                               IF IsSome(sp.last_net)
                               THEN rate_from_delta(Unwrap(net_totals)[2],
                                                    Unwrap(sp.last_net)[2], delta)
                               ELSE @,
                           !.last_net = net_totals]
                   ELSE sp
             s2 == IF IsSome(disk_totals)
                   THEN [s1 EXCEPT
                           !.current.disk_read_mbps =
                               IF IsSome(s1.last_disk)
                               THEN rate_from_delta(Unwrap(disk_totals)[1],
                                                    Unwrap(s1.last_disk)[1], delta)
                               ELSE @,
                           !.current.disk_write_mbps =
                               IF IsSome(s1.last_disk)
                               THEN rate_from_delta(Unwrap(disk_totals)[2],
                                                    Unwrap(s1.last_disk)[2], delta)
                               ELSE @,
                           !.last_disk = disk_totals]
                   ELSE s1
             s3 == [s2 EXCEPT !.last_instant = Some(now)]
         IN [sampler |-> s3, ret |-> s3.current, read |-> TRUE]

\* No IoSampler is under test.
NoIo ==
    [sampler |-> IoSamplerNew, now |-> 0, n |-> 0, ret |-> IoZero, reads |-> 0,
     net |-> None, disk |-> None]
IoIdle == io = NoIo

\* ------------------------------------------------------- session state
\* CpuMetrics: of a reading's figures the four the session state computes
\* with.  Powers are whole numbers, and the inputs are chosen so that the
\* divisions by the interval are exact.
ZeroCpu == [cpu_w |-> 0, gpu_w |-> 0, ane_w |-> 0, package_w |-> 0]
\* GpuMetrics
ZeroGpu == [active_pct |-> 0, freq_mhz |-> 0]

\* A String is the sequence of its characters.
Nominal == <<"N", "o", "m", "i", "n", "a", "l">>
WhiteSpace == {" ", "\n", "\t"}

\* str::trim: the white space at both ends is taken off.
RECURSIVE trim_start(_)
trim_start(str) ==
    IF Len(str) > 0 /\ str[1] \in WhiteSpace THEN trim_start(Tail(str)) ELSE str
RECURSIVE trim_end(_)
trim_end(str) ==
    IF Len(str) > 0 /\ str[Len(str)] \in WhiteSpace
    THEN trim_end(SubSeq(str, 1, Len(str) - 1))
    ELSE str
trim(str) == trim_end(trim_start(str))

\* impl From<u32> for ThermalLevel; raw is the code an Unknown carries.
ThermalLevelFrom(value) ==
    IF value = 0 THEN [tag |-> "Normal", raw |-> 0]
    ELSE IF value \in {5, 100} THEN [tag |-> "Danger", raw |-> 0]
    ELSE IF value \in {10, 110} THEN [tag |-> "Crisis", raw |-> 0]
    ELSE [tag |-> "Unknown", raw |-> value]

\* ThermalLevel::is_throttled
is_throttled(level) == level.tag # "Normal"

\* read_warning_level, given what IOPMGetThermalWarningLevel answered.
read_warning_level(answer) ==
    IF answer.status = 0 THEN Some(ThermalLevelFrom(answer.level)) ELSE None

\* Mutant: the label is compared as it came.
thermal_throttle_untrimmed(s) ==
    IF IsSome(s.thermal_level)
    THEN is_throttled(Unwrap(s.thermal_level))
    ELSE s.thermal_pressure # Nominal

\* AppState::snapshot, the thermal_throttle flag of the UiSnapshot.
thermal_throttle(s) ==
    IF IsSome(s.thermal_level)
    THEN is_throttled(Unwrap(s.thermal_level))
    ELSE trim(s.thermal_pressure) # Nominal

\* MemoryStats, of its fields the two in gigabytes, and IoStats, of its four
\* rates the two of the network.
MemoryAtStart == [total_gb |-> 16, used_gb |-> 8]
IoStatsDefault == [net_in_mbps |-> 0, net_out_mbps |-> 0]

\* What the collaborators answer when they are called: the thermal query,
\* MemoryReader::read and IoSampler::sample.
QuietEnv ==
    [thermal |-> [status |-> 0, level |-> 0],
     memory |-> MemoryAtStart,
     io |-> IoStatsDefault]

\* The collaborators called so far, counted.
NoCalls == [memory |-> 0, thermal |-> 0, io |-> 0]
RECURSIVE Counted(_, _)
Counted(count, made) ==
    IF made = <<>> THEN count
    ELSE Counted([count EXCEPT ![Head(made)] = @ + 1], Tail(made))

\* The records of the byte model carry their timestamp and no energy.
TimestampOnly(ts) ==
    [timestamp |-> ts, thermal_pressure |-> <<>>, cpu |-> ZeroCpu, gpu |-> ZeroGpu]

\* Mutant: the energies are taken for watts as they are.
convert_power_raw(processor) ==
    [cpu_w |-> processor.cpu_energy,
     gpu_w |-> processor.gpu_energy,
     ane_w |-> processor.ane_energy,
     package_w |-> processor.combined_power]

\* convert_snapshot, the energy fields: each / 1000.0.  The energies drawn
\* are multiples of 1000.
convert_power(processor) ==
    [cpu_w |-> processor.cpu_energy \div 1000,
     gpu_w |-> processor.gpu_energy \div 1000,
     ane_w |-> processor.ane_energy \div 1000,
     package_w |-> processor.combined_power \div 1000]

\* convert_snapshot, the GpuMetrics.
convert_gpu(gpu) ==
    [active_pct |-> ratio_to_pct(gpu.idle_ratio),
     freq_mhz |-> display_freq(gpu.freq_hz)]

\* convert_snapshot on a RawSnapshot with no clusters.
convert_sample(raw) ==
    [timestamp |-> raw.timestamp,
     thermal_pressure |-> raw.thermal_pressure,
     cpu |-> convert_power(raw.processor),
     gpu |-> convert_gpu(raw.gpu)]

\* No RawSnapshot has been decoded yet.
NoSample ==
    [timestamp |-> 0,
     thermal_pressure |-> <<>>,
     processor |-> [cpu_energy |-> 0, gpu_energy |-> 0, ane_energy |-> 0,
                    combined_power |-> 0],
     gpu |-> [idle_ratio |-> RatioFin(1000), freq_hz |-> FreqFin(0, 0)]]

\* Cli as clap fills it in when no option is given, and a SocInfo.
DefaultCli == [interval |-> 1, avg |-> 30, max_count |-> 0]
DefaultSoc == [ane_max_power |-> 8]

\* Mutant: the window is the quotient as it comes, without the floor of 1.
AppStateNewNoFloor(cli, soc) ==
    LET interval_seconds == Max2(cli.interval, 1)
        avg_window == cli.avg \div interval_seconds
    IN [config |-> cli,
        soc |-> soc,
        cpu_metrics |-> ZeroCpu,
        gpu_metrics |-> ZeroGpu,
        memory_stats |-> MemoryAtStart,
        io_stats |-> IoStatsDefault,
        thermal_pressure |-> <<>>,
        thermal_level |-> None,
        last_timestamp |-> None,
        power_history |-> HistoryNew(120),
        cpu_avg |-> RollingAverageNew(avg_window),
        gpu_avg |-> RollingAverageNew(avg_window),
        package_avg |-> RollingAverageNew(avg_window),
        cpu_peak |-> 0, gpu_peak |-> 0, package_peak |-> 0,
        cpu_power |-> 0, gpu_power |-> 0, package_power |-> 0,
        ane_percent |-> 0, ane_power |-> 0,
        samples_taken |-> 0]

\* AppState::new
AppStateNew(cli, soc) ==
    LET interval_seconds == Max2(cli.interval, 1)
        avg_window == Max2(1, cli.avg \div interval_seconds)
    IN [config |-> cli,
        soc |-> soc,
        cpu_metrics |-> ZeroCpu,
        gpu_metrics |-> ZeroGpu,
        memory_stats |-> MemoryAtStart,
        io_stats |-> IoStatsDefault,
        thermal_pressure |-> <<>>,
        thermal_level |-> None,
        last_timestamp |-> None,
        power_history |-> HistoryNew(120),
        cpu_avg |-> RollingAverageNew(avg_window),
        gpu_avg |-> RollingAverageNew(avg_window),
        package_avg |-> RollingAverageNew(avg_window),
        cpu_peak |-> 0, gpu_peak |-> 0, package_peak |-> 0,
        cpu_power |-> 0, gpu_power |-> 0, package_power |-> 0,
        ane_percent |-> 0, ane_power |-> 0,
        samples_taken |-> 0]

\* Spec keeps of the AppState the two fields the poll loop branches on.
AppStateNow ==
    [AppStateNew([DefaultCli EXCEPT !.max_count = max_count], DefaultSoc)
        EXCEPT !.samples_taken = samples_taken, !.last_timestamp = last_timestamp]

\* round() of n / d for n >= 0, d > 0
RoundDiv(n, d) == (2 * n + d) \div (2 * d)

\* Mutant: a peak is the last figure, not the largest.
update_power_stats_last(s) ==
    LET interval == Max2(s.config.interval, 1)
        cpu_power == s.cpu_metrics.cpu_w \div interval
        gpu_power == s.cpu_metrics.gpu_w \div interval
        package_power == s.cpu_metrics.package_w \div interval
        ane_power == s.cpu_metrics.ane_w \div interval
        ane_max == Max2(s.soc.ane_max_power, 1)
    IN [s EXCEPT !.cpu_power = cpu_power,
                 !.gpu_power = gpu_power,
                 !.package_power = package_power,
                 !.ane_power = ane_power,
                 !.ane_percent = clamp(RoundDiv(ane_power * 100, ane_max), 0, 100),
                 !.cpu_peak = cpu_power,
                 !.gpu_peak = gpu_power,
                 !.package_peak = package_power,
                 !.cpu_avg = RollingAveragePush(@, cpu_power),
                 !.gpu_avg = RollingAveragePush(@, gpu_power),
                 !.package_avg = RollingAveragePush(@, package_power),
                 !.power_history = HistoryPush(@, cpu_power + gpu_power)]

\* Mutant: the history takes the package power.
update_power_stats_package(s) ==
    LET interval == Max2(s.config.interval, 1)
        cpu_power == s.cpu_metrics.cpu_w \div interval
        gpu_power == s.cpu_metrics.gpu_w \div interval
        package_power == s.cpu_metrics.package_w \div interval
        ane_power == s.cpu_metrics.ane_w \div interval
        ane_max == Max2(s.soc.ane_max_power, 1)
    IN [s EXCEPT !.cpu_power = cpu_power,
                 !.gpu_power = gpu_power,
                 !.package_power = package_power,
                 !.ane_power = ane_power,
                 !.ane_percent = clamp(RoundDiv(ane_power * 100, ane_max), 0, 100),
                 !.cpu_peak = Max2(@, cpu_power),
                 !.gpu_peak = Max2(@, gpu_power),
                 !.package_peak = Max2(@, package_power),
                 !.cpu_avg = RollingAveragePush(@, cpu_power),
                 !.gpu_avg = RollingAveragePush(@, gpu_power),
                 !.package_avg = RollingAveragePush(@, package_power),
                 !.power_history = HistoryPush(@, package_power)]

\* AppState::update_power_stats
update_power_stats(s) ==
    LET interval == Max2(s.config.interval, 1)
        cpu_power == s.cpu_metrics.cpu_w \div interval
        gpu_power == s.cpu_metrics.gpu_w \div interval
        package_power == s.cpu_metrics.package_w \div interval
        ane_power == s.cpu_metrics.ane_w \div interval
        ane_max == Max2(s.soc.ane_max_power, 1)
    IN [s EXCEPT !.cpu_power = cpu_power,
                 !.gpu_power = gpu_power,
                 !.package_power = package_power,
                 !.ane_power = ane_power,
                 !.ane_percent = clamp(RoundDiv(ane_power * 100, ane_max), 0, 100),
                 !.cpu_peak = Max2(@, cpu_power),
                 !.gpu_peak = Max2(@, gpu_power),
                 !.package_peak = Max2(@, package_power),
                 !.cpu_avg = RollingAveragePush(@, cpu_power),
                 !.gpu_avg = RollingAveragePush(@, gpu_power),
                 !.package_avg = RollingAveragePush(@, package_power),
                 !.power_history = HistoryPush(@, cpu_power + gpu_power)]

\* What apply_reading and update_if_new both do with a reading they take:
\* its fields, refresh_thermal_level, update_power_stats, refresh_io, and
\* the count.
Integrate(s, reading, env) ==
    LET s1 == [s EXCEPT !.last_timestamp = Some(reading.timestamp),
                        !.thermal_pressure = reading.thermal_pressure,
                        !.cpu_metrics = reading.cpu,
                        !.gpu_metrics = reading.gpu,
                        !.thermal_level = read_warning_level(env.thermal)]
    IN [update_power_stats(s1) EXCEPT !.io_stats = env.io,
                                      !.samples_taken = @ + 1]

\* The collaborators Integrate calls, in order.
IntegrateCalls == <<"thermal", "io">>

\* AppState::apply_reading
apply_reading(s, reading, env) == Integrate(s, reading, env)

\* Mutant: < for <=, a re-read record is taken again.
IsStaleLax(s, reading) ==
    IsSome(s.last_timestamp) /\ reading.timestamp < Unwrap(s.last_timestamp)

\* The guard of AppState::update_if_new: the reading is a duplicate or stale.
IsStale(s, reading) ==
    IsSome(s.last_timestamp) /\ reading.timestamp <= Unwrap(s.last_timestamp)

\* Mutant: the memory is read before the guard.
update_if_new_reads_first(s, reading, env) ==
    IF IsStale(s, reading)
    THEN [state |-> [s EXCEPT !.memory_stats = env.memory],
          ret |-> FALSE,
          made |-> <<"memory">>]
    ELSE [state |-> [Integrate(s, reading, env) EXCEPT !.memory_stats = env.memory],
          ret |-> TRUE,
          made |-> <<"memory">> \o IntegrateCalls]

\* Mutant: every reading is taken.
update_if_new_always(s, reading, env) ==
    [state |-> [Integrate(s, reading, env) EXCEPT !.memory_stats = env.memory],
     ret |-> TRUE,
     made |-> <<"memory">> \o IntegrateCalls]

\* AppState::update_if_new: the state after it and the bool it returns.
update_if_new(s, reading, env) ==
    IF IsStale(s, reading)
    THEN [state |-> s, ret |-> FALSE, made |-> <<>>]
    ELSE [state |-> [Integrate(s, reading, env) EXCEPT !.memory_stats = env.memory],
          ret |-> TRUE,
          made |-> <<"memory">> \o IntegrateCalls]

\* Mutant: > for >=.
RestartDueStrict(maxCount, samples) == maxCount > 0 /\ samples > maxCount

\* The restart trigger of run_ui.
RestartDue(maxCount, samples) == maxCount > 0 /\ samples >= maxCount

\* Mutant: the restart starts the session state afresh.
RestartStateFresh(s) == AppStateNew(s.config, s.soc)

\* Mutant: samples_taken survives the restart.
RestartStateKeepCount(s) == [s EXCEPT !.last_timestamp = None]

\* Mutant: last_timestamp survives the restart.
RestartStateKeepTimestamp(s) == [s EXCEPT !.samples_taken = 0]

\* What a restart does to the session state (lines 200-201).
RestartState(s) == [s EXCEPT !.samples_taken = 0, !.last_timestamp = None]

\* SpecSession is not running.
SessionIdle ==
    /\ app = AppStateNew(DefaultCli, DefaultSoc)
    /\ raw_sample = NoSample
    /\ calls = NoCalls

\* PowermetricsReader::new / set_timecode: the reader holds the token.
ReaderSetTimecode(tok) == reader_timecode' = tok

\* PowermetricsReader::parse reads the artifact of the token it holds.
ReaderArtifact == files[reader_timecode]

\* What main and run_ui hold in memory besides the guard.
memVars == <<attempt, rd_pos, polled, accepted, samples_taken, last_timestamp,
             prev_session_ts, running, needs_redraw, last_draw, max_count>>

\* Everything the program itself is made of.
mainVars == <<pc, exit_status, main_error, result, created, clock, timecode,
              reader_timecode, osVars, memVars>>

\* --------------------------------------------------------------- Init
InitMem ==
    /\ max_count = 0
    /\ attempt = 0
    /\ rd_pos = -1
    /\ polled = Pending
    /\ accepted = FALSE
    /\ samples_taken = 0
    /\ last_timestamp = None
    /\ prev_session_ts = None
    /\ running = FALSE
    /\ needs_redraw = FALSE
    /\ last_draw = "none"

InitMain ==
    /\ exit_status = "none"
    /\ main_error = "none"
    /\ result = "none"
    /\ created = {}
    /\ clock = 1
    /\ timecode = 0
    /\ reader_timecode = 0
    /\ guard_child = None
    /\ procs = [p \in Pids |-> "unborn"]
    /\ proc_tok = [p \in Pids |-> 0]
    /\ signalled = {}
    /\ kills = 0
    /\ waits = 0
    /\ peak_live = 0
    /\ files = [t \in Tokens |-> NoFile]
    /\ InitMem

\* main after Cli::parse and the cleanup_powermetrics_files of line 90.
Init ==
    /\ pc = "boot"
    /\ InitMain
    /\ IoIdle
    /\ ExtractIdle
    /\ NormalizeIdle
    /\ StatsIdle
    /\ SessionIdle

\* The process is gone: so is its memory.
Exit(status) ==
    /\ pc' = "done"
    /\ exit_status' = status
    /\ max_count' = 0
    /\ attempt' = 0
    /\ rd_pos' = -1
    /\ polled' = Pending
    /\ accepted' = FALSE
    /\ samples_taken' = 0
    /\ last_timestamp' = None
    /\ prev_session_ts' = None
    /\ running' = FALSE
    /\ needs_redraw' = FALSE
    /\ last_draw' = "none"

\* ------------------------------------------------------ main, startup
\* Mutant: the spawn error is dropped and main goes on without a child.
BootIgnoreSpawnError ==
    /\ pc = "boot"
    /\ \E spawnOk \in BOOLEAN :
         LET p == FreshPid(procs)
             w == run_powermetrics(World, clock, spawnOk, p)
         IN /\ timecode' = clock
            /\ Commit(IF spawnOk THEN GuardNew(w, p) ELSE w)
            /\ created' = {"guard", "pm_reader"}
            /\ ReaderSetTimecode(clock)
            /\ pc' = "wait"
            /\ UNCHANGED <<exit_status, main_error, memVars>>
    /\ UNCHANGED <<result, clock, exVars>>

\* main, lines 93-98: new_timecode, run_powermetrics, the guard, the reader.
Boot ==
    /\ pc = "boot"
    /\ \E spawnOk \in BOOLEAN :
         LET p == FreshPid(procs)
             w == run_powermetrics(World, clock, spawnOk, p)
         IN /\ timecode' = clock
            /\ IF spawnOk
               THEN /\ Commit(GuardNew(w, p))
                    /\ created' = {"guard", "pm_reader"}
                    /\ ReaderSetTimecode(clock)
                    /\ pc' = "wait"
                    /\ UNCHANGED <<exit_status, main_error, memVars>>
               ELSE /\ Commit(w)
                    /\ Exit("err")
                    /\ main_error' = "spawn"
                    /\ UNCHANGED <<created, reader_timecode>>
    /\ UNCHANGED <<result, clock, exVars>>

\* What read_to_end may leave of the window win: all of it, or an error
\* after any number of its bytes.
ReadOutcomes(win) ==
    {[readOk |-> TRUE, data |-> win]}
        \cup {[readOk |-> FALSE, data |-> SubSeq(win, 1, k)] : k \in 0..Len(win)}

\* main leaving through `?` with the guard alive: the guard is dropped.
FailStartup(err) ==
    /\ Commit(GuardDrop(World))
    /\ \E killRes \in KillResults(World), waitRes \in WaitResults :
         LET out == TerminateOutcome(World, killRes, waitRes)
         IN Exit(IF out = "ok" THEN "err" ELSE out)
    /\ main_error' = err
    /\ UNCHANGED <<created, result>>

\* Mutant: one poll more before the wait gives up.
WaitExhaustedLate(n) == n >= MAX_ATTEMPTS

\* for attempt in 0..MAX_ATTEMPTS: the poll numbered n (from 0) was the last.
WaitExhausted(n) == n + 1 >= MAX_ATTEMPTS

\* wait_for_reading, given what reader.parse() returned, and lines 104-105.
\* Nothing reads cli.max_count before AppState::new takes the Cli, so its
\* value is drawn there.
WaitDeliver(res) ==
    IF res.tag = "Some"
    THEN LET s == apply_reading(AppStateNew(DefaultCli, DefaultSoc),
                                TimestampOnly(res.timestamp), QuietEnv)
         IN /\ created' = created \cup {"state"}
            /\ \E m \in 0..MaxMaxCount : max_count' = m
            /\ samples_taken' = s.samples_taken
            /\ last_timestamp' = s.last_timestamp
            /\ polled' = res
            /\ accepted' = TRUE
            /\ attempt' = 0
            /\ rd_pos' = -1
            /\ pc' = "setup"
            /\ UNCHANGED <<exit_status, main_error, result, osVars, prev_session_ts,
                           running, needs_redraw, last_draw>>
    ELSE IF res.tag = "None" /\ ~WaitExhausted(attempt)
    THEN /\ attempt' = attempt + 1
         /\ rd_pos' = -1
         /\ polled' = res
         /\ UNCHANGED <<pc, exit_status, main_error, result, created, osVars, appVars,
                        accepted, running, needs_redraw, last_draw, max_count>>
    ELSE FailStartup(IF res.tag = "None" THEN "timeout" ELSE "parse")

\* parse_powermetrics up to the seek, on artifact f: an early return
\* (done, with the result), or the position the read will start from (0
\* when the seek failed).  metadata() failing counts as length 0.
ParseBegin(f) ==
    {LET len == IF statOk THEN Len(f.bytes) ELSE 0
     IN IF ParseEarly(f.exists, len)
        THEN [done |-> TRUE, pos |-> -1,
              res |-> parse_powermetrics(f.exists, len, TRUE, <<>>)]
        ELSE [done |-> FALSE, pos |-> IF seekOk THEN SeekStart(len) ELSE 0,
              res |-> Pending]
     : statOk \in BOOLEAN, seekOk \in BOOLEAN}

\* parse_powermetrics from read_to_end on, reading artifact f from pos.
ParseEnd(f, pos) ==
    {ParseData(o.readOk, o.data) : o \in ReadOutcomes(ReadWindow(f.bytes, pos))}

\* The artifact is open and about to be read: nothing else has changed.
ParseSeeked(pos) ==
    /\ rd_pos' = pos
    /\ UNCHANGED <<pc, exit_status, main_error, result, created, attempt, polled, accepted,
                   appVars, osVars, running, needs_redraw, last_draw, max_count>>

WaitBegin ==
    /\ pc = "wait"
    /\ rd_pos = -1
    /\ \E b \in ParseBegin(ReaderArtifact) :
         IF b.done THEN WaitDeliver(b.res) ELSE ParseSeeked(b.pos)
    /\ UNCHANGED <<clock, timecode, reader_timecode, exVars>>

WaitEnd ==
    /\ pc = "wait"
    /\ rd_pos >= 0
    /\ \E res \in ParseEnd(ReaderArtifact, rd_pos) : WaitDeliver(res)
    /\ UNCHANGED <<clock, timecode, reader_timecode, exVars>>

\* ------------------------------------------------------------- run_ui
\* run_ui returning Err through `?`.
ReturnErr ==
    /\ pc' = "stop"
    /\ result' = "err"

\* setup_terminal()? and the locals of run_ui.
Setup ==
    /\ pc = "setup"
    /\ \E ok \in BOOLEAN :
         IF ok
         THEN /\ pc' = "input"
              /\ running' = TRUE
              /\ needs_redraw' = TRUE
              /\ UNCHANGED result
         ELSE /\ ReturnErr
              /\ UNCHANGED <<running, needs_redraw>>
    /\ UNCHANGED <<exit_status, main_error, created, max_count, clock, timecode,
                   reader_timecode, attempt, rd_pos, polled, accepted,
                   appVars, osVars, last_draw, exVars>>

\* Lines 175-187: event::poll(poll_rate)?, event::read()?, the key, and
\* whether 100 ms have passed since last_sample.  event::poll returning
\* false has waited the whole 100 ms; an event may arrive sooner.
Input ==
    /\ pc = "input"
    /\ \E ev \in {"timeout", "quit", "other", "err"}, elapsed \in BOOLEAN :
         /\ ev = "timeout" => elapsed
         /\ IF ev = "err"
            THEN /\ ReturnErr
                 /\ UNCHANGED running
            ELSE /\ running' = IF ev = "quit" THEN FALSE ELSE running
                 /\ pc' = IF elapsed THEN "poll" ELSE "trigger"
                 /\ UNCHANGED result
    /\ polled' = Pending
    /\ accepted' = FALSE
    /\ UNCHANGED <<exit_status, main_error, created, max_count, clock, timecode,
                   reader_timecode, attempt, rd_pos, appVars, osVars,
                   needs_redraw, last_draw, exVars>>

\* Mutant: any sample the poll yields asks for a redraw.
NeedsRedrawAfterAnySample(taken, flag) == TRUE

\* Lines 189-192: needs_redraw once update_if_new has (taken) or has not
\* returned true.
NeedsRedrawAfterPoll(taken, flag) == taken \/ flag

\* Lines 188-193, given what pm_reader.parse() returned.
PollDeliver(res) ==
    /\ rd_pos' = -1
    /\ polled' = res
    /\ UNCHANGED <<exit_status, main_error, created, attempt, osVars, prev_session_ts,
                   running, last_draw, max_count>>
    /\ IF res.tag = "Some"
       THEN LET r == update_if_new(AppStateNow, TimestampOnly(res.timestamp), QuietEnv)
            IN /\ samples_taken' = r.state.samples_taken
               /\ last_timestamp' = r.state.last_timestamp
               /\ accepted' = r.ret
               /\ needs_redraw' = NeedsRedrawAfterPoll(r.ret, needs_redraw)
               /\ pc' = "trigger"
               /\ UNCHANGED result
       ELSE IF res.tag = "None"
       THEN /\ pc' = "trigger"
            /\ accepted' = FALSE
            /\ UNCHANGED <<result, samples_taken, last_timestamp, needs_redraw>>
       ELSE /\ ReturnErr
            /\ accepted' = FALSE
            /\ UNCHANGED <<samples_taken, last_timestamp, needs_redraw>>

PollBegin ==
    /\ pc = "poll"
    /\ rd_pos = -1
    /\ \E b \in ParseBegin(ReaderArtifact) :
         IF b.done THEN PollDeliver(b.res) ELSE ParseSeeked(b.pos)
    /\ UNCHANGED <<clock, timecode, reader_timecode, exVars>>

PollEnd ==
    /\ pc = "poll"
    /\ rd_pos >= 0
    /\ \E res \in ParseEnd(ReaderArtifact, rd_pos) : PollDeliver(res)
    /\ UNCHANGED <<clock, timecode, reader_timecode, exVars>>

\* Lines 196-202: the restart trigger.  new_timecode reads the clock, which
\* has not gone back since it was last read.
Trigger ==
    /\ pc = "trigger"
    /\ IF RestartDue(max_count, samples_taken)
       THEN /\ Unborn(procs) # {}
            /\ \E t \in clock..MaxClock, spawnOk \in BOOLEAN,
                  killRes \in KillResults(World), waitRes \in WaitResults :
                 LET w == GuardRestart(World, t, spawnOk, FreshPid(procs))
                     out == TerminateOutcome(World, killRes, waitRes)
                 IN /\ clock' = t
                    /\ timecode' = t
                    /\ Commit(w)
                    /\ IF spawnOk /\ out = "ok"
                       THEN /\ ReaderSetTimecode(t)
                            /\ samples_taken' = RestartState(AppStateNow).samples_taken
                            /\ last_timestamp' = RestartState(AppStateNow).last_timestamp
                            /\ prev_session_ts' = last_timestamp
                            /\ pc' = "draw"
                            /\ UNCHANGED result
                       ELSE /\ ReturnErr
                            /\ UNCHANGED <<reader_timecode, appVars>>
       ELSE /\ pc' = "draw"
            /\ UNCHANGED <<clock, timecode, reader_timecode, osVars, result,
                           appVars>>
    /\ UNCHANGED <<exit_status, main_error, created, max_count, attempt, rd_pos, polled,
                   accepted, running, needs_redraw, last_draw, exVars>>

\* Lines 204-211, and the loop test; past the loop, run_ui returns Ok.
Draw ==
    /\ pc = "draw"
    /\ \E drawOk \in BOOLEAN :
         IF needs_redraw /\ ~drawOk
         THEN /\ ReturnErr
              /\ last_draw' = "failed"
              /\ UNCHANGED needs_redraw
         ELSE /\ needs_redraw' = FALSE
              /\ last_draw' = IF needs_redraw THEN "drew" ELSE "skipped"
              /\ IF running
                 THEN /\ pc' = "input"
                      /\ UNCHANGED result
                 ELSE /\ pc' = "stop"
                      /\ result' = "ok"
    /\ UNCHANGED <<exit_status, main_error, created, max_count, clock, timecode,
                   reader_timecode, attempt, rd_pos, polled, accepted,
                   appVars, osVars, running, exVars>>

\* main, lines 118-130: guard.stop(), cleanup_terminal, the result; the
\* guard is dropped as main returns.
Finish ==
    /\ pc = "stop"
    /\ Commit(GuardDrop(GuardStop(World)))
    /\ \E killRes \in KillResults(World), waitRes \in WaitResults :
         LET out == TerminateOutcome(World, killRes, waitRes)
         IN Exit(IF out = "ok" THEN result ELSE out)
    /\ main_error' = IF result = "err" THEN "run_ui" ELSE "none"
    /\ created' = created \cup {"restored"}
    /\ UNCHANGED <<result, clock, timecode, reader_timecode, exVars>>

\* A panic anywhere once the guard exists: the stack unwinds and the guard
\* is dropped.
Panic ==
    /\ pc \in {"wait", "setup", "input", "poll", "trigger", "draw", "stop"}
    /\ Commit(GuardDrop(World))
    /\ Exit("panic")
    /\ UNCHANGED main_error
    /\ UNCHANGED <<result, created, clock, timecode, reader_timecode, exVars>>

\* ------------------------------------------------- the sampling process
\* The byte a producer appends to bytes, t being the timestamp of the
\* record it is about to write.
NextByte(bytes, t) ==
    LET last == IF Len(bytes) = 0 THEN NUL ELSE bytes[Len(bytes)]
    IN IF last = NUL THEN Hdr
       ELSE IF last = Hdr THEN TsByte(t)
       ELSE IF last = Trl THEN NUL
       ELSE Trl

\* A running child creates its artifact, then appends to it.
ChildWrite ==
    /\ \E p \in Pids, t \in Timestamps :
         /\ procs[p] = "running"
         /\ LET f == files[proc_tok[p]]
            IN IF ~f.exists
               THEN files' = [files EXCEPT ![proc_tok[p]] =
                                [exists |-> TRUE, bytes |-> <<>>,
                                 writers |-> {p}]]
               ELSE /\ Len(f.bytes) < MaxFileLen
                    /\ files' = [files EXCEPT ![proc_tok[p]].bytes =
                                   Append(@, NextByte(f.bytes, t)),
                                 ![proc_tok[p]].writers = @ \cup {p}]
    /\ UNCHANGED <<pc, exit_status, main_error, result, created, clock, timecode,
                   reader_timecode, guard_child, procs, proc_tok, signalled,
                   kills, waits, peak_live, memVars, exVars>>

\* A running child dies on its own; nobody monitors it.
ChildExit ==
    /\ \E p \in Pids :
         /\ procs[p] = "running"
         /\ procs' = [procs EXCEPT ![p] = "zombie"]
    /\ UNCHANGED <<pc, exit_status, main_error, result, created, clock, timecode,
                   reader_timecode, guard_child, proc_tok, signalled, kills,
                   waits, peak_live, files, memVars, exVars>>

Next ==
    \/ Boot
    \/ WaitBegin
    \/ WaitEnd
    \/ Setup
    \/ Input
    \/ PollBegin
    \/ PollEnd
    \/ Trigger
    \/ Draw
    \/ Finish
    \/ Panic
    \/ ChildWrite
    \/ ChildExit

Spec == Init /\ [][Next]_vars

\* ------------------------------------------- the extractor on its own
\* One call of parse_powermetrics on answers of the file system drawn from
\* bounded sets: whether the artifact opens, the length metadata() reports,
\* read_to_end's result, and the bytes it read, which are up to MaxFrags
\* fragments, whole records and cut ones, with a sentinel between each two.
FragPool ==
    {<<>>, <<Hdr>>, <<Trl>>}
        \cup {<<Hdr, TsByte(t)>> : t \in Timestamps}
        \cup {<<TsByte(t), Trl>> : t \in Timestamps}
        \cup {<<Hdr, TsByte(t), Trl>> : t \in Timestamps}

FragSeqs == UNION {[1..n -> FragPool] : n \in 0..MaxFrags}

RECURSIVE JoinNul(_)
JoinNul(frags) ==
    IF Len(frags) = 0 THEN <<>>
    ELSE IF Len(frags) = 1 THEN frags[1]
    ELSE frags[1] \o <<NUL>> \o JoinNul(Tail(frags))

InitExtract ==
    /\ pc = "extract"
    /\ InitMain
    /\ IoIdle
    /\ ex_in \in [openOk : BOOLEAN, len : {0, MaxFileLen}, readOk : BOOLEAN,
                  frags : FragSeqs]
    /\ ex_out = Pending
    /\ NormalizeIdle
    /\ StatsIdle
    /\ SessionIdle

ExtractApply ==
    /\ pc = "extract"
    /\ ex_out = Pending
    /\ ex_out' = parse_powermetrics(ex_in.openOk, ex_in.len, ex_in.readOk,
                                    JoinNul(ex_in.frags))
    /\ UNCHANGED <<pc, exit_status, main_error, result, created, clock, timecode,
                   reader_timecode, osVars, memVars, ex_in, normVars,
                   statsVars, sessionVars, io>>

SpecExtract == InitExtract /\ [][ExtractApply]_vars

\* ------------------------------------------ the normalizer on its own
\* One call of ratio_to_pct, display_freq (and a second one on its result)
\* or aggregate_cluster, on arguments drawn from bounded sets.
SeqsUpTo(S, n) == UNION {[1..k -> S] : k \in 0..n}

\* Idle ratios: every thousandth from below 0 to above 1, every tenth up to
\* above 100, some far below 0, and the non-finite values.
RatioPool ==
    {RatioFin(m) : m \in (0 - MaxOff)..(1000 + MaxOff)}
        \cup {RatioFin(100 * k) : k \in 10..(1000 + MaxOff)}
        \cup {RatioFin(0 - 1000 * k) : k \in 1..MaxOff}
        \cup RatioNonFinite

\* Frequencies: around 0, around the Hz threshold, around the rounding
\* points, usual clock rates given in MHz and in Hz, and rates so high that
\* the MHz figure itself reaches the threshold.
HalfPool ==
    UNION {{c + k : k \in (0 - MaxOff)..MaxOff} \cap 0..1999999 :
           c \in {0, 2 * 100000, 1000000, 1999999}}
        \cup {2 * 600, 2 * 2400, 2 * 3504}
FreqPool ==
    {FreqFin(0, h) : h \in HalfPool}
        \cup {FreqFin(m, h) : m \in {1, 600, 2400, 3504, 99999, 100000},
                              h \in {0, 1, 999999, 1000000, 1999999}}
        \cup FreqNonPositive

Lower(prefix) == IF prefix = "E" THEN "e" ELSE "p"
ClusterNames(prefix) ==
    {primary_label(prefix), <<prefix, "0">> \o ClusterSuffix,
     <<Lower(prefix)>> \o ClusterSuffix}
ClusterPool(prefix) ==
    [name : ClusterNames(prefix), active_pct : {0, 40}, freq_mhz : {0, 2000}]
CorePool ==
    {[id |-> 0, active_pct |-> a, freq_mhz |-> f] :
        <<a, f>> \in {<<0, 0>>, <<50, 1000>>, <<70, 3000>>, <<50, 3000>>}}

\* Raw clusters: of class E, of class P and of neither, the first two with
\* an upper-case or a lower-case name, busy or idle, with a frequency in Hz
\* or none, with one core or none.
RawCorePool ==
    {[cpu |-> 0, idle_ratio |-> RatioFin(m), freq_hz |-> FreqFin(f, 0)] :
        <<m, f>> \in {<<500, 1000>>, <<300, 3000>>}}
RawClusterPool ==
    [name : {primary_label("E"), primary_label("P"), primary_label("S"),
             primary_label("e"), primary_label("p")},
     idle_ratio : {RatioFin(600), RatioFin(1000)},
     freq_hz : {FreqFin(0, 0), FreqFin(2000, 0)},
     cpus : SeqsUpTo(RawCorePool, 1)]

InitNormalize ==
    /\ pc = "normalize"
    /\ InitMain
    /\ IoIdle
    /\ ExtractIdle
    /\ StatsIdle
    /\ SessionIdle
    /\ nz_out = NoReturn
    /\ \/ \E r \in RatioPool :
            nz_in = [NoCall EXCEPT !.fn = "ratio_to_pct", !.ratio = r]
       \/ \E x \in FreqPool :
            nz_in = [NoCall EXCEPT !.fn = "display_freq", !.freq = x]
       \/ \E prefix \in {"E", "P"} :
            \E cl \in SeqsUpTo(ClusterPool(prefix), MaxClusters),
               co \in SeqsUpTo(CorePool, MaxCores) :
                 nz_in = [NoCall EXCEPT !.fn = "aggregate_cluster",
                                        !.clusters = cl, !.cores = co,
                                        !.prefix = prefix]
       \/ \E raw \in SeqsUpTo(RawClusterPool, MaxClusters) :
            nz_in = [NoCall EXCEPT !.fn = "convert_snapshot", !.raw = raw]

RatioApply ==
    /\ pc = "normalize"
    /\ nz_in.fn = "ratio_to_pct"
    /\ nz_out.calls = 0
    /\ nz_out' = [NoReturn EXCEPT !.calls = 1, !.first = ratio_to_pct(nz_in.ratio)]
    /\ UNCHANGED <<mainVars, ex_in, ex_out, nz_in, statsVars, sessionVars, io>>

FreqApply ==
    /\ pc = "normalize"
    /\ nz_in.fn = "display_freq"
    /\ nz_out.calls = 0
    /\ nz_out' = [NoReturn EXCEPT !.calls = 1, !.first = display_freq(nz_in.freq)]
    /\ UNCHANGED <<mainVars, ex_in, ex_out, nz_in, statsVars, sessionVars, io>>

\* display_freq on what display_freq returned.
FreqApplyAgain ==
    /\ pc = "normalize"
    /\ nz_in.fn = "display_freq"
    /\ nz_out.calls = 1
    /\ nz_out' = [nz_out EXCEPT !.calls = 2,
                                !.second = display_freq(U64AsF64(nz_out.first))]
    /\ UNCHANGED <<mainVars, ex_in, ex_out, nz_in, statsVars, sessionVars, io>>

AggregateApply ==
    /\ pc = "normalize"
    /\ nz_in.fn = "aggregate_cluster"
    /\ nz_out.calls = 0
    /\ LET r == aggregate_cluster(nz_in.clusters, nz_in.cores, nz_in.prefix)
       IN nz_out' = [NoReturn EXCEPT !.calls = 1, !.first = r.active,
                                       !.second = r.freq]
    /\ UNCHANGED <<mainVars, ex_in, ex_out, nz_in, statsVars, sessionVars, io>>

ConvertApply ==
    /\ pc = "normalize"
    /\ nz_in.fn = "convert_snapshot"
    /\ nz_out.calls = 0
    /\ nz_out' = [NoReturn EXCEPT !.calls = 1, !.cpu = convert_clusters(nz_in.raw)]
    /\ UNCHANGED <<mainVars, ex_in, ex_out, nz_in, statsVars, sessionVars, io>>

NextNormalize ==
    \/ RatioApply
    \/ FreqApply
    \/ FreqApplyAgain
    \/ AggregateApply
    \/ ConvertApply

SpecNormalize == InitNormalize /\ [][NextNormalize]_vars

\* ------------------------------------- the rolling statistics on their own
\* A RollingAverage of window max_len and a History of capacity max_len, new
\* or having taken Aged pushes of one value already, and then up to
\* MaxPushes further values, each pushed into both as update_power_stats
\* pushes each figure.
Values == {10 * k : k \in 1..MaxVal}
Aged == 1000 - 2

\* The pushes xs[lo], ..., xs[hi] in that order, halved and the first half
\* evaluated before the second is begun, to keep the evaluation shallow.
RECURSIVE RollingAveragePushAll(_, _, _, _)
RollingAveragePushAll(r, xs, lo, hi) ==
    IF lo > hi THEN r
    ELSE IF lo = hi THEN RollingAveragePush(r, xs[lo])
    ELSE LET mid == (lo + hi) \div 2
             half == RollingAveragePushAll(r, xs, lo, mid)
         IN IF half.max_len < 0 THEN half
            ELSE RollingAveragePushAll(half, xs, mid + 1, hi)

RECURSIVE HistoryPushAll(_, _, _, _)
HistoryPushAll(h, xs, lo, hi) ==
    IF lo > hi THEN h
    ELSE IF lo = hi THEN HistoryPush(h, xs[lo])
    ELSE LET mid == (lo + hi) \div 2
             half == HistoryPushAll(h, xs, lo, mid)
         IN IF half.max_len < 0 THEN half
            ELSE HistoryPushAll(half, xs, mid + 1, hi)

InitStats ==
    /\ pc = "stats"
    /\ InitMain
    /\ IoIdle
    /\ ExtractIdle
    /\ NormalizeIdle
    /\ SessionIdle
    /\ pushes \in {<<>>} \cup {[i \in 1..Aged |-> v] : v \in Values}
    /\ \E n \in 0..MaxWindow : ra = RollingAveragePushAll(RollingAverageNew(n), pushes, 1, Len(pushes))
    /\ \E k \in 0..MaxCap : hist = HistoryPushAll(HistoryNew(k), pushes, 1, Len(pushes))

StatsPush ==
    /\ pc = "stats"
    /\ Len(pushes) < MaxPushes \/ (Len(pushes) >= Aged /\ Len(pushes) < Aged + MaxPushes)
    /\ \E v \in Values :
         /\ ra' = RollingAveragePush(ra, v)
         /\ hist' = HistoryPush(hist, v)
         /\ pushes' = Append(pushes, v)
    /\ UNCHANGED <<mainVars, ex_in, ex_out, normVars, sessionVars, io>>

SpecStats == InitStats /\ [][StatsPush]_vars

\* ------------------------------------------ the session state on its own
\* The AppState as main builds it, the first reading applied to it (lines
\* 104-105), then what run_ui does to it: update_if_new on each reading a
\* poll yields, and the restart once it is due, which the loop evaluates
\* after every poll.  The readings are converted from raw samples that
\* carry energies (multiples of 1000 and of every interval) and a GPU.
CliPool == [interval : {0, 1, 2}, avg : {0, 1, 4}, max_count : 0..MaxMaxCount]
SocPool == {[ane_max_power |-> p] : p \in {0, 8}}
RawProcessorPool ==
    {[cpu_energy |-> 1000 * c, gpu_energy |-> 1000 * g, ane_energy |-> 1000 * a,
      combined_power |-> 1000 * (c + g + a)] :
        <<c, g, a>> \in {<<0, 0, 0>>, <<2, 4, 0>>, <<6, 0, 2>>, <<4, 2, 20>>}}
RawGpuPool ==
    {[idle_ratio |-> RatioFin(1000), freq_hz |-> FreqFin(0, 0)],
     [idle_ratio |-> RatioFin(250), freq_hz |-> FreqFin(1200, 0)]}
RawSamples ==
    [timestamp : Timestamps, thermal_pressure : {Nominal},
     processor : RawProcessorPool, gpu : RawGpuPool]

InitSession ==
    /\ pc = "session"
    /\ InitMain
    /\ IoIdle
    /\ ExtractIdle
    /\ NormalizeIdle
    /\ StatsIdle
    /\ raw_sample = NoSample
    /\ calls = Counted(NoCalls, <<"memory">>)
    /\ \E cli \in CliPool, soc \in SocPool : app = AppStateNew(cli, soc)

\* main, lines 105-106: the first reading is applied, and the memory read.
SessionStart ==
    /\ pc = "session"
    /\ raw_sample = NoSample
    /\ \E raw \in RawSamples :
         /\ raw_sample' = raw
         /\ app' = [apply_reading(app, convert_sample(raw), QuietEnv)
                       EXCEPT !.memory_stats = QuietEnv.memory]
         /\ calls' = Counted(calls, IntegrateCalls \o <<"memory">>)
    /\ UNCHANGED <<mainVars, ex_in, ex_out, normVars, statsVars, io>>

SessionPoll ==
    /\ pc = "session"
    /\ raw_sample # NoSample
    /\ ~RestartDue(app.config.max_count, app.samples_taken)
    /\ Len(HistoryValues(app.power_history)) < MaxAccepted
    /\ \E raw \in RawSamples :
         LET r == update_if_new(app, convert_sample(raw), QuietEnv)
         IN /\ raw_sample' = raw
            /\ app' = r.state
            /\ calls' = Counted(calls, r.made)
    /\ UNCHANGED <<mainVars, ex_in, ex_out, normVars, statsVars, io>>

SessionRestart ==
    /\ pc = "session"
    /\ raw_sample # NoSample
    /\ RestartDue(app.config.max_count, app.samples_taken)
    /\ app' = RestartState(app)
    /\ UNCHANGED <<mainVars, ex_in, ex_out, normVars, statsVars, raw_sample, calls, io>>

NextSession ==
    \/ SessionStart
    \/ SessionPoll
    \/ SessionRestart

SpecSession == InitSession /\ [][NextSession]_vars

\* ------------------------------------- the session and its collaborators
\* The AppState of the default configuration, given readings whose thermal
\* pressure label varies, and collaborators whose answers vary: the
\* warning level IOPMGetThermalWarningLevel reports or fails to report, what
\* MemoryReader::read returns and what IoSampler::sample returns.
Heavy == <<"H", "e", "a", "v", "y">>
LabelPool == {Nominal, <<" ">> \o Nominal \o <<"\n">>, Heavy}
ThermalCodes == {0, 5, 110, 7}
ThermalAnswers ==
    {[status |-> 0, level |-> l] : l \in ThermalCodes}
        \cup {[status |-> 1, level |-> 0]}
MemoryPool == {MemoryAtStart, [total_gb |-> 16, used_gb |-> 12]}
IoPool == {IoStatsDefault, [net_in_mbps |-> 3, net_out_mbps |-> 1]}
EnvPool == [thermal : ThermalAnswers, memory : MemoryPool, io : IoPool]
LabelledSamples ==
    [timestamp : Timestamps, thermal_pressure : LabelPool,
     processor : {[cpu_energy |-> 2000, gpu_energy |-> 4000, ane_energy |-> 0,
                   combined_power |-> 6000],
                  [cpu_energy |-> 6000, gpu_energy |-> 0, ane_energy |-> 2000,
                   combined_power |-> 8000]},
     gpu : {[idle_ratio |-> RatioFin(250), freq_hz |-> FreqFin(1200, 0)]}]

InitCollab ==
    /\ pc = "collab"
    /\ InitMain
    /\ IoIdle
    /\ ExtractIdle
    /\ NormalizeIdle
    /\ StatsIdle
    /\ raw_sample = NoSample
    /\ calls = Counted(NoCalls, <<"memory">>)
    /\ app = AppStateNew(DefaultCli, DefaultSoc)

\* main, lines 105-106: the first reading is applied, and the memory read.
CollabStart ==
    /\ pc = "collab"
    /\ raw_sample = NoSample
    /\ \E raw \in LabelledSamples, env \in EnvPool :
         /\ raw_sample' = raw
         /\ app' = [apply_reading(app, convert_sample(raw), env)
                       EXCEPT !.memory_stats = env.memory]
         /\ calls' = Counted(calls, IntegrateCalls \o <<"memory">>)
    /\ UNCHANGED <<mainVars, ex_in, ex_out, normVars, statsVars, io>>

\* run_ui, lines 188-193, on a reading the poll yields.
CollabPoll ==
    /\ pc = "collab"
    /\ raw_sample # NoSample
    /\ Len(HistoryValues(app.power_history)) < MaxAccepted
    /\ \E raw \in LabelledSamples, env \in EnvPool :
         LET r == update_if_new(app, convert_sample(raw), env)
         IN /\ raw_sample' = raw
            /\ app' = r.state
            /\ calls' = Counted(calls, r.made)
    /\ UNCHANGED <<mainVars, ex_in, ex_out, normVars, statsVars, io>>

NextCollab ==
    \/ CollabStart
    \/ CollabPoll

SpecCollab == InitCollab /\ [][NextCollab]_vars

\* ------------------------------------------------------------ IoSampler
\* An IoSampler that sample is called on up to MaxIoCalls times, each call
\* some time after the one before, the counters being what the platform
\* reports then: the network's not at all, or going up or down, the disks'
\* staying or going up.  io.n counts the calls and io.reads the calls that
\* read the counters; io.net and io.disk are what the counters were at the
\* latest call.
IoSteps == {0, 499, 500, 1200}
NetPool == {None, Some(<<1, 1>>), Some(<<3, 1>>), Some(<<2, 4>>)}
DiskPool == {Some(<<0, 0>>), Some(<<4, 2>>)}

InitIo ==
    /\ pc = "io"
    /\ InitMain
    /\ ExtractIdle
    /\ NormalizeIdle
    /\ StatsIdle
    /\ SessionIdle
    /\ io = NoIo

IoSample ==
    /\ pc = "io"
    /\ io.n < MaxIoCalls
    /\ \E dt \in IoSteps, net \in NetPool, disk \in DiskPool :
         LET now == io.now + dt
             r == IoSamplerSample(io.sampler, now, net, disk)
         IN io' = [sampler |-> r.sampler, now |-> now, n |-> io.n + 1,
                   ret |-> r.ret,
                   reads |-> IF r.read THEN io.reads + 1 ELSE io.reads,
                   net |-> net, disk |-> disk]
    /\ UNCHANGED <<mainVars, ex_in, ex_out, normVars, statsVars, sessionVars>>

SpecIo == InitIo /\ [][IoSample]_vars

\* ============================================================= claims
LoopPcs == {"input", "poll", "trigger", "draw"}

\* The step in which the poll of run_ui hands over what parse() returned.
PollReturns == pc = "poll" /\ pc' \in {"trigger", "stop"}

\* C1: a sample the poll loop's extractor yields is accepted if and only if
\* last_timestamp is none or the sample's timestamp is strictly greater; an
\* accepted sample becomes last_timestamp and adds exactly one to
\* samples_taken, a rejected one changes neither; so whenever samples_taken
\* grows over a set last_timestamp, last_timestamp grows strictly.
C1_Dedup ==
    [][/\ (PollReturns /\ polled'.tag = "Some") =>
            /\ accepted' <=> (\/ last_timestamp = None
                              \/ polled'.timestamp > Unwrap(last_timestamp))
            /\ accepted' => /\ samples_taken' = samples_taken + 1
                            /\ last_timestamp' = Some(polled'.timestamp)
            /\ ~accepted' => UNCHANGED <<samples_taken, last_timestamp>>
       /\ (samples_taken' > samples_taken /\ IsSome(last_timestamp)) =>
            Unwrap(last_timestamp') > Unwrap(last_timestamp)
      ]_vars

\* A re-read record (the timestamp last_timestamp already holds) was
\* rejected after two samples had been accepted.
C1_Witness ==
    /\ pc = "trigger"
    /\ polled.tag = "Some"
    /\ ~accepted
    /\ samples_taken = 2
    /\ last_timestamp = Some(polled.timestamp)

\* C2: when the trigger is evaluated a restart is issued (the owned child is
\* killed) if and only if max_count > 0 and samples_taken >= max_count; a
\* restart that spawns gives main and the reader one new token, the guard a
\* new running child writing under that token, the old child reaped,
\* samples_taken 0 and last_timestamp none; with no restart due nothing of
\* this changes; with max_count = 0 the poll loop never kills a child.
C2_RestartTrigger ==
    [][/\ (pc = "trigger" /\ pc' \in {"draw", "stop"}) =>
            LET due == max_count > 0 /\ samples_taken >= max_count
            IN /\ due <=> kills' = kills + 1
               /\ ~due => UNCHANGED <<kills, waits, guard_child, procs, timecode,
                                      reader_timecode, samples_taken,
                                      last_timestamp>>
               /\ (due /\ pc' = "draw") =>
                    /\ timecode' >= timecode
                    /\ reader_timecode' = timecode'
                    /\ guard_child' # guard_child
                    /\ procs[Unwrap(guard_child')] = "unborn"
                    /\ procs'[Unwrap(guard_child')] = "running"
                    /\ proc_tok'[Unwrap(guard_child')] = timecode'
                    /\ procs'[Unwrap(guard_child)] = "reaped"
                    /\ samples_taken' = 0
                    /\ last_timestamp' = None
       /\ (pc' \in LoopPcs /\ max_count' = 0) => kills' = 0
      ]_vars

\* With max_count = 1 the sample applied at startup alone made the restart
\* due: the first iteration restarted without a poll.
C2_Witness ==
    /\ pc = "draw"
    /\ max_count = 1
    /\ polled = Pending
    /\ guard_child = Some(2)
    /\ procs[1] = "reaped"
    /\ procs[2] = "running"
    /\ kills = 1
    /\ samples_taken = 0
    /\ last_timestamp = None
    /\ reader_timecode = timecode

\* C3: the first sample the extractor yields after a restart is accepted
\* whatever its timestamp, and is what dedup compares with from then on.
C3_FirstAfterRestart ==
    [][(PollReturns /\ polled'.tag = "Some" /\ IsSome(prev_session_ts)
            /\ samples_taken = 0) =>
          /\ accepted'
          /\ samples_taken' = 1
          /\ last_timestamp' = Some(polled'.timestamp)
      ]_vars

\* After a restart a sample older than the last one of the session before
\* was accepted.
C3_Witness ==
    /\ pc = "trigger"
    /\ accepted
    /\ samples_taken = 1
    /\ IsSome(prev_session_ts)
    /\ polled.timestamp < Unwrap(prev_session_ts)
    /\ last_timestamp = Some(polled.timestamp)

\* C4: never more than one child is unreaped, not even inside a restart;
\* and from a successful spawn until stop is called exactly one is, the one
\* the guard owns.  (A child counts from its spawn until it is waited on.)
C4_OneChild ==
    /\ peak_live <= 1
    /\ Cardinality(Unreaped(procs)) <= 1
    /\ (pc \in {"wait", "setup"} \cup LoopPcs \/ (pc = "stop" /\ result = "ok")) =>
          /\ IsSome(guard_child)
          /\ Unreaped(procs) = {Unwrap(guard_child)}

\* A restart has replaced the first child by the second.
C4_Witness ==
    /\ pc = "draw"
    /\ guard_child = Some(2)
    /\ procs[1] = "reaped"
    /\ procs[2] = "running"
    /\ peak_live = 1

\* C5: when the program has ended, however it ended, every child it spawned
\* was sent SIGKILL and then waited on: none is running or a zombie.
C5_NoOrphan ==
    pc = "done" =>
        \A p \in Pids : /\ procs[p] \in {"unborn", "reaped"}
                        /\ procs[p] = "reaped" => p \in signalled

\* The program ended in a panic after a restart: both children are reaped.
C5_Witness ==
    /\ pc = "done"
    /\ exit_status = "panic"
    /\ procs[1] = "reaped"
    /\ procs[2] = "reaped"
    /\ signalled = {1, 2}

\* C6: in every state the guard can be in, a second stop() and a drop after
\* stop() change nothing and issue no kill and no wait; one stop() leaves no
\* handle, the child it held reaped, and has issued one kill and one wait
\* if it held a child and none otherwise.
C6_StopIdempotent ==
    LET w == World
        once == GuardStop(w)
        n == IF IsSome(w.child) THEN 1 ELSE 0
    IN /\ GuardStop(once) = once
       /\ GuardDrop(once) = once
       /\ once.child = None
       /\ once.kills = w.kills + n
       /\ once.waits = w.waits + n
       /\ IsSome(w.child) => once.procs[Unwrap(w.child)] = "reaped"

\* main called stop() and then dropped the guard: one kill, one wait.
C6_Witness ==
    /\ pc = "done"
    /\ exit_status = "ok"
    /\ guard_child = None
    /\ procs[1] = "reaped"
    /\ kills = 1
    /\ waits = 1

\* The fragments of an input that are whole records.
IsRecord(frag) == \E t \in Timestamps : frag = <<Hdr, TsByte(t), Trl>>
RecordsAt(frags) == {i \in 1..Len(frags) : IsRecord(frags[i])}
LastRecordTs(frags) ==
    LET i == CHOOSE k \in RecordsAt(frags) : \A j \in RecordsAt(frags) : j <= k
    IN frags[i][2] - Trl
Applied == pc = "extract" /\ ex_out # Pending
ReadSomething == ex_in.openOk /\ ex_in.len # 0 /\ Len(JoinNul(ex_in.frags)) > 0

\* C7: when the window read holds bytes, the extractor returns no error,
\* and if any fragment between sentinels is a whole record it returns the
\* last such fragment's record, whatever cut fragments lie before or after.
C7_LastDecodable ==
    (Applied /\ ReadSomething) =>
        /\ ex_out.tag # "Err"
        /\ RecordsAt(ex_in.frags) # {} =>
              /\ ex_out.tag = "Some"
              /\ ex_out.timestamp = LastRecordTs(ex_in.frags)

\* Two different records, the newer one followed by a cut fragment.
C7_Witness ==
    /\ Applied
    /\ ReadSomething
    /\ Len(ex_in.frags) = 3
    /\ IsRecord(ex_in.frags[1])
    /\ IsRecord(ex_in.frags[2])
    /\ ex_in.frags[1] # ex_in.frags[2]
    /\ ex_in.frags[3] = <<Hdr>>
    /\ ex_out.tag = "Some"

\* C8: the extractor returns None when the artifact cannot be opened, when
\* its length is 0, when the read succeeds with no bytes, and when bytes
\* were read and no fragment is a whole record.
C8_NoneNotError ==
    Applied =>
        ((\/ ~ex_in.openOk
          \/ ex_in.len = 0
          \/ (ex_in.readOk /\ Len(JoinNul(ex_in.frags)) = 0)
          \/ (Len(JoinNul(ex_in.frags)) > 0 /\ RecordsAt(ex_in.frags) = {}))
            => ex_out = ResNone)

\* The artifact exists with length 0 while a read would have failed.
C8_Witness ==
    /\ Applied
    /\ ex_in.openOk
    /\ ex_in.len = 0
    /\ ~ex_in.readOk
    /\ ex_in.frags = <<>>
    /\ ex_out = ResNone

\* C9: a read failure of a poll in the poll loop leaves the session running:
\* run_ui does not return on it.
C9_ReadFailureContinues ==
    polled.tag = "Err" => pc \in LoopPcs

\* C10: when the spawn at startup fails main ends at once with an error,
\* having created no guard, no reader and no session state, and nothing
\* runs after it.
C10_SpawnFailureFatal ==
    [][/\ (pc = "boot" /\ pc' # "boot" /\ Unborn(procs') = Pids) =>
            /\ pc' = "done"
            /\ exit_status' = "err"
            /\ created' = {}
            /\ guard_child' = None
            /\ UNCHANGED <<reader_timecode, attempt, samples_taken,
                           last_timestamp, polled, kills, waits>>
       /\ pc = "done" => UNCHANGED <<pc, exit_status, main_error, created>>
      ]_vars

\* main has ended in an error without ever having had a child.
C10_Witness ==
    /\ pc = "done"
    /\ exit_status = "err"
    /\ created = {}
    /\ Unborn(procs) = Pids

\* The step in which a poll of wait_for_reading hands over what parse()
\* returned (a panic aside).
WaitReturns ==
    /\ pc = "wait"
    /\ pc' # "wait" \/ attempt' # attempt
    /\ exit_status' # "panic"

\* C11: the initial wait ends within MAX_ATTEMPTS polls: every poll that
\* yields nothing adds one to a counter that stays below MAX_ATTEMPTS, the
\* first poll that yields a sample ends the wait with that sample applied,
\* and the poll after MAX_ATTEMPTS - 1 empty ones ends it either way; the
\* timeout is reported only after MAX_ATTEMPTS polls, and then main ends in
\* an error with no session state built, the loop never entered and the
\* child killed and reaped.
C11_WaitTerminates ==
    [][/\ attempt' < MAX_ATTEMPTS
       /\ WaitReturns =>
            /\ pc' \in {"wait", "setup", "done"}
            /\ pc' = "wait" => /\ attempt' = attempt + 1
                               /\ polled'.tag = "None"
            /\ pc' = "setup" => /\ polled'.tag = "Some"
                                /\ samples_taken' = 1
                                /\ last_timestamp' = Some(polled'.timestamp)
            /\ attempt = MAX_ATTEMPTS - 1 => pc' # "wait"
            /\ pc' = "done" =>
                  /\ exit_status' = "err"
                  /\ main_error' \in {"timeout", "parse"}
                  /\ main_error' = "timeout" => attempt = MAX_ATTEMPTS - 1
                  /\ "state" \notin created'
                  /\ running' = FALSE
                  /\ Unreaped(procs') = {}
                  /\ Unwrap(guard_child) \in signalled'
                  /\ procs'[Unwrap(guard_child)] = "reaped"
       /\ (pc = "done" /\ main_error = "timeout") => pc' = "done"
      ]_vars

\* The wait timed out: main has ended in an error, its child reaped.
C11_Witness ==
    /\ pc = "done"
    /\ exit_status = "err"
    /\ main_error = "timeout"
    /\ created = {"guard", "pm_reader"}
    /\ procs[1] = "reaped"
    /\ 1 \in signalled
    /\ kills = 1

\* What an aggregate_cluster call was given and has returned.
AggApplied == pc = "normalize" /\ nz_in.fn = "aggregate_cluster" /\ nz_out.calls = 1
\* The first cluster of the input named exactly "{prefix}-Cluster", 0 if none.
PrimaryAt ==
    LET named == {i \in 1..Len(nz_in.clusters) :
                    nz_in.clusters[i].name = <<nz_in.prefix>> \o ClusterSuffix}
    IN IF named = {} THEN 0 ELSE CHOOSE i \in named : \A j \in named : i <= j
CoreActives == [i \in 1..Len(nz_in.cores) |-> nz_in.cores[i].active_pct]
CoreFreqs == {nz_in.cores[i].freq_mhz : i \in 1..Len(nz_in.cores)}
\* C12: when a cluster named exactly "{prefix}-Cluster" is there, a nonzero
\* active% of it is the class's aggregated active% and a nonzero frequency
\* of it the aggregated frequency, whatever the cores report.
C12_PrimaryClusterWins ==
    (AggApplied /\ PrimaryAt > 0) =>
        LET primary == nz_in.clusters[PrimaryAt]
        IN /\ primary.active_pct > 0 => nz_out.first = primary.active_pct
           /\ primary.freq_mhz > 0 => nz_out.second = primary.freq_mhz

\* C13: when no cluster of the class reports a nonzero active% the
\* aggregated active% is the integer average of the cores' active%, when
\* none reports a nonzero frequency the aggregated frequency is the largest
\* core frequency, and with no cores either both are 0.
C13_CoreFallback ==
    AggApplied =>
        /\ (\A i \in 1..Len(nz_in.clusters) : nz_in.clusters[i].active_pct = 0) =>
              nz_out.first = IF Len(nz_in.cores) = 0 THEN 0
                             ELSE SumSeq(CoreActives) \div Len(nz_in.cores)
        /\ (\A i \in 1..Len(nz_in.clusters) : nz_in.clusters[i].freq_mhz = 0) =>
              /\ \A f \in CoreFreqs : nz_out.second >= f
              /\ nz_out.second \in CoreFreqs \cup {0}
              /\ CoreFreqs # {} => nz_out.second \in CoreFreqs

\* No clusters, cores at 50% and 70%: 60%, and the larger frequency.
C13_Witness ==
    /\ AggApplied
    /\ nz_in.prefix = "P"
    /\ nz_in.clusters = <<>>
    /\ CoreActives = <<50, 70>>
    /\ nz_in.cores[1].freq_mhz < nz_in.cores[2].freq_mhz
    /\ nz_out.first = 60
    /\ nz_out.second = nz_in.cores[2].freq_mhz

RatioApplied == pc = "normalize" /\ nz_in.fn = "ratio_to_pct" /\ nz_out.calls = 1
Min2(a, b) == IF a <= b THEN a ELSE b

\* C14: ratio_to_pct of any idle ratio, finite or not, is within 0..100; of
\* 0.0 it is 100 and of 1.0 it is 0; a ratio above 1 gives what its
\* hundredth gives, or what 1.0 gives when the hundredth is still above 1.
C14_PctInRange ==
    RatioApplied =>
        LET m == nz_in.ratio.milli
        IN /\ nz_out.first \in 0..100
           /\ nz_in.ratio = RatioFin(0) => nz_out.first = 100
           /\ nz_in.ratio = RatioFin(1000) => nz_out.first = 0
           /\ (nz_in.ratio.kind = "fin" /\ m > 1000 /\ m % 100 = 0) =>
                 nz_out.first = ratio_to_pct(RatioFin(Min2(m \div 100, 1000)))

\* An idle ratio of 5.0 was read as 5%: 95% active.
C14_Witness ==
    /\ RatioApplied
    /\ nz_in.ratio = RatioFin(5000)
    /\ nz_out.first = 95

FreqAppliedTwice == pc = "normalize" /\ nz_in.fn = "display_freq" /\ nz_out.calls = 2

\* C15 as stated: display_freq of what display_freq returned is that same
\* value, for every input.
C15_Idempotent ==
    FreqAppliedTwice => nz_out.second = nz_out.first

\* C15 amended: display_freq of what display_freq returned is that same
\* value whenever the value returned is below 100000.
C15_IdempotentBelowThreshold ==
    FreqAppliedTwice =>
        /\ nz_out.first < 100000 => nz_out.second = nz_out.first
        /\ nz_in.freq.kind # "fin" => nz_out.first = 0

\* 2.4 GHz given in Hz became 2400 MHz and stayed 2400 MHz.
C15_Witness ==
    /\ FreqAppliedTwice
    /\ nz_in.freq = FreqFin(2400, 0)
    /\ nz_out.first = 2400
    /\ nz_out.second = 2400

\* The last k values pushed, oldest first.
LastPushed(k) == SubSeq(pushes, Len(pushes) - k + 1, Len(pushes))

\* C16: a RollingAverage of window N >= 1 holds, after n pushes, the last
\* min(n, N) values pushed in the order they were pushed, and its average
\* is their arithmetic mean, 0 when nothing was pushed.
C16_RollingAverage ==
    (pc = "stats" /\ ra.max_len >= 1) =>
        LET k == Min2(Len(pushes), ra.max_len)
            avg == RollingAverageAverage(ra)
        IN /\ ra.data = LastPushed(k)
           /\ k = 0 => avg.num = 0
           /\ k > 0 => avg.num * k = SumSeq(LastPushed(k)) * avg.den

\* Window 3, pushes 10, 20, 30, 40: 10 is gone and the average is 30.
C16_Witness ==
    /\ pc = "stats"
    /\ ra.max_len = 3
    /\ pushes = <<10, 20, 30, 40>>
    /\ ra.data = <<20, 30, 40>>
    /\ RollingAverageAverage(ra).num = 30 * RollingAverageAverage(ra).den

\* C17: a History of capacity K >= 1 returns, after n pushes, the last
\* min(n, K) values pushed, oldest first, and never holds more than K.
C17_History ==
    (pc = "stats" /\ hist.max_len >= 1) =>
        /\ HistoryValues(hist) = LastPushed(Min2(Len(pushes), hist.max_len))
        /\ Len(hist.data) <= hist.max_len

\* Capacity 2, pushes 10, 20, 30: the values are 20, 30.
C17_Witness ==
    /\ pc = "stats"
    /\ hist.max_len = 2
    /\ pushes = <<10, 20, 30>>
    /\ HistoryValues(hist) = <<20, 30>>

\* C18: the CPU, GPU and package peaks never decrease, a restart leaves
\* them as they are, and once a sample is taken each is at least the power
\* just derived from that sample, its energy figure over the interval.
C18_PeaksMonotone ==
    [][pc = "session" =>
         LET interval == Max2(app.config.interval, 1)
         IN /\ app'.cpu_peak >= app.cpu_peak
            /\ app'.gpu_peak >= app.gpu_peak
            /\ app'.package_peak >= app.package_peak
            /\ (app'.samples_taken = 0 /\ app.samples_taken > 0) =>
                  /\ app'.cpu_peak = app.cpu_peak
                  /\ app'.gpu_peak = app.gpu_peak
                  /\ app'.package_peak = app.package_peak
            /\ app'.samples_taken = app.samples_taken + 1 =>
                  /\ app'.cpu_power * interval = app'.cpu_metrics.cpu_w
                  /\ app'.gpu_power * interval = app'.cpu_metrics.gpu_w
                  /\ app'.package_power * interval = app'.cpu_metrics.package_w
                  /\ app'.cpu_peak >= app'.cpu_power
                  /\ app'.gpu_peak >= app'.gpu_power
                  /\ app'.package_peak >= app'.package_power
      ]_vars

\* Two samples, a restart, and a third sample with lower CPU and package
\* power: the peaks are those of the session before.
C18_Witness ==
    /\ pc = "session"
    /\ app.config.max_count = 2
    /\ app.samples_taken = 1
    /\ Len(HistoryValues(app.power_history)) = 3
    /\ app.cpu_peak > app.cpu_power
    /\ app.package_peak > app.package_power
    /\ app.gpu_peak > 0

\* The timestamps of the complete records an artifact holds, oldest first.
Decodes(chunk) == IsSome(from_reader(chunk))
RecordTs(bytes) ==
    LET recs == SelectSeq(Chunks(bytes), Decodes)
    IN [i \in 1..Len(recs) |-> Unwrap(from_reader(recs[i])).timestamp]
StrictlyIncreasing(ts) == \A i, j \in 1..Len(ts) : i < j => ts[i] < ts[j]

C20_TokenChangesOnSpawn ==
    [][(/\ pc = "trigger"
        /\ RestartDue(max_count, samples_taken)
        /\ guard_child' # guard_child
        /\ guard_child # None
        /\ guard_child' # None) =>
            /\ timecode' # timecode
            /\ proc_tok'[Unwrap(guard_child')] # proc_tok[Unwrap(guard_child)]
      ]_vars

MatchingAt == {i \in 1..Len(nz_in.clusters) : nz_in.clusters[i].name[1] = nz_in.prefix}
MatchingActiveSum ==
    LET RECURSIVE Sum(_)
        Sum(S) == IF S = {} THEN 0
                  ELSE LET i == CHOOSE j \in S : TRUE
                       IN nz_in.clusters[i].active_pct + Sum(S \ {i})
    IN Sum(MatchingAt)
MatchingFreqs == {nz_in.clusters[i].freq_mhz : i \in MatchingAt}
CoreAverage ==
    IF Len(nz_in.cores) = 0 THEN 0 ELSE SumSeq(CoreActives) \div Len(nz_in.cores)

\* C22: with no cluster named exactly "{prefix}-Cluster" but clusters of the
\* class present, the aggregated active% is the integer average of their
\* active% when that is nonzero and the aggregated frequency their largest
\* frequency when that is nonzero; the cores' average and largest frequency
\* stand in only for a cluster-level figure that is zero.
C22_MatchingClustersWin ==
    (AggApplied /\ PrimaryAt = 0 /\ MatchingAt # {}) =>
        LET avg == MatchingActiveSum \div Cardinality(MatchingAt)
            top == CHOOSE f \in MatchingFreqs : \A g \in MatchingFreqs : f >= g
        IN /\ avg > 0 => nz_out.first = avg
           /\ top > 0 => nz_out.second = top
           /\ avg = 0 => nz_out.first = CoreAverage
           /\ top = 0 => /\ \A f \in CoreFreqs : nz_out.second >= f
                         /\ nz_out.second \in CoreFreqs \cup {0}

\* What a convert_snapshot call was given and has returned.
ConvertApplied == pc = "normalize" /\ nz_in.fn = "convert_snapshot" /\ nz_out.calls = 1
\* The clusters of the input whose name begins with neither E nor P.
Foreign(cluster) == cluster.name[1] \notin {"E", "e", "P", "p"}
Native(cluster) == ~Foreign(cluster)
Aggregates(cpu) ==
    <<cpu.e_cluster_active, cpu.e_cluster_freq_mhz,
      cpu.p_cluster_active, cpu.p_cluster_freq_mhz>>

\* C23: a cluster whose name begins with neither E nor P is dropped from
\* cluster aggregation: the four aggregates are what they are for the input
\* without that cluster and its cores; and each of its cores is in one of
\* the per-core lists.
C23_ForeignClusterDropped ==
    ConvertApplied =>
        /\ Aggregates(nz_out.cpu) =
              Aggregates(convert_clusters(SelectSeq(nz_in.raw, Native)))
        /\ \A i \in 1..Len(nz_in.raw) :
              Foreign(nz_in.raw[i]) =>
                 \A k \in 1..Len(nz_in.raw[i].cpus) :
                    \E j \in 1..Len(nz_out.cpu.e_cores \o nz_out.cpu.p_cores) :
                       (nz_out.cpu.e_cores \o nz_out.cpu.p_cores)[j] =
                          core_metrics(nz_in.raw[i].cpus[k])

\* The step of SpecSession in which a sample is accepted: the reading main
\* applies at startup, or a polled one that update_if_new does not find
\* stale.
Accepting ==
    /\ pc = "session"
    /\ raw_sample' # raw_sample \/ app' # app
    /\ \/ raw_sample = NoSample
       \/ /\ ~(app.config.max_count > 0 /\ app.samples_taken >= app.config.max_count)
          /\ \/ app.last_timestamp = None
             \/ raw_sample'.timestamp > Unwrap(app.last_timestamp)
\* The buffer new is the buffer old of capacity cap with the one value v
\* pushed into it.
PushedOne(old, new, v, cap) ==
    new = (IF Len(old) = cap THEN Tail(old) ELSE old) \o <<v>>

C25_PowerFromEnergy ==
    [][Accepting =>
         LET divisor == IF app.config.interval >= 1 THEN app.config.interval ELSE 1
             energy == raw_sample'.processor
         IN /\ app'.cpu_power = (energy.cpu_energy \div 1000) \div divisor
            /\ app'.gpu_power = (energy.gpu_energy \div 1000) \div divisor
            /\ app'.ane_power = (energy.ane_energy \div 1000) \div divisor
            /\ app'.package_power = (energy.combined_power \div 1000) \div divisor
            /\ app'.cpu_power * divisor * 1000 = energy.cpu_energy
            /\ app'.gpu_power * divisor * 1000 = energy.gpu_energy
            /\ app'.ane_power * divisor * 1000 = energy.ane_energy
            /\ app'.package_power * divisor * 1000 = energy.combined_power
      ]_vars

\* Interval 0: the energies of the sample come out divided by 1000 alone.
C25_Witness ==
    /\ pc = "session"
    /\ app.config.interval = 0
    /\ app.last_timestamp = Some(raw_sample.timestamp)
    /\ raw_sample.processor.cpu_energy = 6000
    /\ app.cpu_power = 6
    /\ app.ane_power = 2
    /\ app.package_power = 8

\* C26: a RollingAverage never holds more than max_len values, its sum is
\* the sum of the values it holds, and its push counter is below 1000;
\* every push, the 1000th with its resummation included, leaves the sum at
\* the old sum less the value evicted plus the value pushed, and the
\* counter at one more, or at 0 when that would be 1000.
C26_SumInvariant ==
    [][pc = "stats" =>
         LET v == pushes'[Len(pushes')]
             evicted == IF Len(ra.data) = ra.max_len /\ Len(ra.data) > 0
                        THEN ra.data[1] ELSE 0
             Holds(r) == /\ Len(r.data) <= r.max_len
                         /\ r.sum = SumSeq(r.data)
                         /\ r.push_count < 1000
         IN /\ Holds(ra)
            /\ Holds(ra')
            /\ ra'.max_len = ra.max_len
            /\ ra.max_len = 0 => ra' = ra
            /\ ra.max_len >= 1 =>
                 /\ ra'.sum = ra.sum - evicted + v
                 /\ ra'.push_count = IF ra.push_count + 1 = 1000 THEN 0
                                     ELSE ra.push_count + 1
                 /\ RollingAverageAverage(ra').num = ra.sum - evicted + v
                 /\ RollingAverageAverage(ra').den = Len(ra'.data)
      ]_vars

\* The 1000th push into a window of 3: the counter is back at 0 and the sum
\* is that of the three values held.
C26_Witness ==
    /\ pc = "stats"
    /\ Len(pushes) = 1000
    /\ ra.max_len = 3
    /\ ra.push_count = 0
    /\ Len(ra.data) = 3
    /\ ra.data[3] # ra.data[2]
    /\ ra.sum = ra.data[1] + ra.data[2] + ra.data[3]

\* The sampling process has died, or has stalled (it appends nothing more,
\* its artifact being at the size where the model's producers stop), the
\* session has taken every record of the artifact that dedup lets it take,
\* and no restart is due.
Stalled ==
    /\ pc \in LoopPcs
    /\ IsSome(guard_child)
    /\ \/ procs[Unwrap(guard_child)] = "zombie"
       \/ /\ procs[Unwrap(guard_child)] = "running"
          /\ Len(ReaderArtifact.bytes) = MaxFileLen
    /\ ~(max_count > 0 /\ samples_taken >= max_count)
    /\ \A i \in 1..Len(RecordTs(ReaderArtifact.bytes)) :
          /\ IsSome(last_timestamp)
          /\ RecordTs(ReaderArtifact.bytes)[i] <= Unwrap(last_timestamp)

\* C27: once the sampling process has died or stalled the poll loop goes on
\* as before.  A poll yields nothing or a record already in the artifact,
\* which is not accepted; samples_taken, last_timestamp, the guard's child,
\* the tokens and the artifacts stay as they are and no kill is issued; the
\* loop is left only when the user has quit or a terminal or read call has
\* failed (or in a panic); otherwise the next state is a stalled one again.
C27_StallNotCrash ==
    [][Stalled =>
         /\ PollReturns =>
              /\ ~accepted'
              /\ polled'.tag = "Some" =>
                   /\ IsSome(last_timestamp)
                   /\ polled'.timestamp <= Unwrap(last_timestamp)
                   /\ \E i \in 1..Len(RecordTs(ReaderArtifact.bytes)) :
                        RecordTs(ReaderArtifact.bytes)[i] = polled'.timestamp
         /\ pc' # "done" =>
              UNCHANGED <<samples_taken, last_timestamp, guard_child, kills,
                          waits, timecode, reader_timecode, files>>
         /\ pc' = "stop" =>
              \/ result' = "ok" /\ ~running
              \/ /\ result' = "err"
                 /\ \/ pc = "input"
                    \/ pc = "poll" /\ polled'.tag = "Err"
                    \/ pc = "draw" /\ needs_redraw
         /\ pc' \in LoopPcs => Stalled'
         /\ pc' \in LoopPcs \cup {"stop", "done"}
         /\ pc' = "done" => exit_status' = "panic"
      ]_vars

\* The child died on its own after its only record was taken; a later poll
\* has read that record again and dropped it, and the loop runs on, one
\* sample short of the restart that will not come.
C27_Witness ==
    /\ Stalled
    /\ pc = "trigger"
    /\ procs[Unwrap(guard_child)] = "zombie"
    /\ polled.tag = "Some"
    /\ ~accepted
    /\ running
    /\ ~needs_redraw
    /\ max_count = 2
    /\ samples_taken = 1
    /\ kills = 0

\* The redraw step of an iteration: terminal.draw is called if and only if
\* this is the first iteration or the poll of this iteration had its sample
\* accepted (each iteration that accepts one redraws, so that is every sample
\* accepted since the previous redraw).
RedrawRule ==
    (pc = "draw" /\ pc' \in {"input", "stop"}) =>
        /\ last_draw' \in {"drew", "failed"} <=> (last_draw = "none" \/ accepted)
        /\ last_draw' = "skipped" <=> ~(last_draw = "none" \/ accepted)
        /\ last_draw' = "failed" <=> (pc' = "stop" /\ result' = "err")
\* Neither the input check nor the restart trigger asks for a redraw.
NoRedrawRequest ==
    (pc \in {"input", "trigger"} /\ pc' \in LoopPcs) => UNCHANGED needs_redraw

\* C28 as stated: in every iteration the input check is followed by the
\* extractor poll, the poll by the restart trigger, the trigger by the
\* redraw step and that by the next iteration's input check; and the redraw
\* rule.
C28_EveryIterationPolls ==
    [][/\ (pc = "input" /\ pc' \in LoopPcs \ {"input"}) => pc' = "poll"
       /\ (pc = "poll" /\ pc' \in LoopPcs \ {"poll"}) => pc' = "trigger"
       /\ (pc = "trigger" /\ pc' \in LoopPcs \ {"trigger"}) => pc' = "draw"
       /\ (pc = "draw" /\ pc' \in LoopPcs \ {"draw"}) => pc' = "input"
       /\ RedrawRule
       /\ NoRedrawRequest
      ]_vars

\* C28 amended: the steps of an iteration come in the order input check,
\* extractor poll, restart trigger, redraw, but the poll is left out of an
\* iteration whose input check finds less than 100 ms gone since the last
\* accepted sample; such an iteration reads nothing and accepts nothing.
\* The redraw rule is as stated.
C28_OrderAndRedraw ==
    [][/\ (pc = "input" /\ pc' \in LoopPcs \ {"input"}) => pc' \in {"poll", "trigger"}
       /\ (pc = "input" /\ pc' = "trigger") =>
             /\ polled' = Pending
             /\ ~accepted'
             /\ rd_pos' = -1
             /\ UNCHANGED <<samples_taken, last_timestamp, needs_redraw>>
       /\ (pc = "poll" /\ pc' \in LoopPcs \ {"poll"}) => pc' = "trigger"
       /\ (pc = "trigger" /\ pc' \in LoopPcs \ {"trigger"}) => pc' = "draw"
       /\ (pc = "draw" /\ pc' \in LoopPcs \ {"draw"}) => pc' = "input"
       /\ RedrawRule
       /\ NoRedrawRequest
      ]_vars

\* An iteration after the first polled a sample, which was rejected, and
\* did not redraw.
C28_Witness ==
    /\ pc = "input"
    /\ running
    /\ last_draw = "skipped"
    /\ polled.tag = "Some"
    /\ ~accepted
    /\ ~needs_redraw

\* C29: the extractor returns an error only when the read fails with no
\* byte read.  While an artifact is open at its read position, every
\* outcome of the read gives an error exactly if it failed and left no
\* bytes, and a failed read that left bytes gives what a read that
\* succeeded with those bytes gives, a sample or None; what the poll hands
\* over is one of these; a call that ends before the read (the open or the
\* length failed it) returns None; and the seek, failed or not, only sets
\* the position the read starts from.
C29_ErrorOnlyOnEmptyFailedRead ==
    [][/\ (pc \in {"wait", "poll"} /\ rd_pos >= 0) =>
            \A o \in ReadOutcomes(ReadWindow(ReaderArtifact.bytes, rd_pos)) :
                /\ ParseData(o.readOk, o.data) = ResErr
                      <=> (~o.readOk /\ Len(o.data) = 0)
                /\ (~o.readOk /\ Len(o.data) > 0) =>
                      /\ ParseData(o.readOk, o.data) = ParseData(TRUE, o.data)
                      /\ ParseData(o.readOk, o.data).tag \in {"None", "Some"}
       /\ (PollReturns /\ rd_pos >= 0) =>
            \E o \in ReadOutcomes(ReadWindow(ReaderArtifact.bytes, rd_pos)) :
                /\ polled' = ParseData(o.readOk, o.data)
                /\ polled'.tag = "Err" => (~o.readOk /\ Len(o.data) = 0)
       /\ (pc \in {"wait", "poll"} /\ rd_pos = -1) =>
            /\ \A b \in ParseBegin(ReaderArtifact) : b.done => b.res = ResNone
            /\ ~ReaderArtifact.exists =>
                  \A b \in ParseBegin(ReaderArtifact) : b.done
            /\ rd_pos' >= 0 =>
                  /\ \E b \in ParseBegin(ReaderArtifact) : rd_pos' = b.pos
                  /\ UNCHANGED <<pc, polled, result, exit_status, main_error>>
       /\ (PollReturns /\ rd_pos = -1) => polled' = ResNone
       /\ (pc = "wait" /\ rd_pos = -1 /\ pc' = "done" /\ exit_status' = "err") =>
            main_error' = "timeout"
      ]_vars

\* The artifact holds a record stamped 2 and after it one stamped 1.  The
\* session took the last one first and then the first one: a read that
\* failed past the first record was processed as a window of its own.
C29_Witness ==
    /\ pc = "trigger"
    /\ kills = 0
    /\ RecordTs(ReaderArtifact.bytes) = <<2, 1>>
    /\ polled = [tag |-> "Some", timestamp |-> 2]
    /\ accepted
    /\ samples_taken = 2
    /\ last_timestamp = Some(2)

\* C30: the guard ends its child as well as it can and reports nothing of
\* it.  Whatever kill and wait report, the step that stops the guard ends
\* the program with what run_ui returned; a startup that gives up ends
\* with its own error as the guard is dropped; and the restart ends run_ui
\* with an error exactly when no new child came of it, the guard keeping
\* the handle it had.
C30_TerminationBestEffort ==
    [][/\ (pc = "stop" /\ guard_child' = None) =>
            /\ pc' = "done"
            /\ exit_status' = result
       /\ (pc = "wait" /\ pc' = "done" /\ main_error' # "none") =>
            exit_status' = "err"
       /\ (pc = "trigger" /\ kills' > kills /\ pc' # "done") =>
            /\ pc' \in {"draw", "stop"}
            /\ pc' = "stop" <=> Unborn(procs') = Unborn(procs)
            /\ pc' = "stop" => (result' = "err" /\ guard_child' = guard_child)
            /\ pc' = "draw" => \E p \in Unborn(procs) :
                                  /\ guard_child' = Some(p)
                                  /\ procs'[p] = "running"
      ]_vars

\* run_ui ended with the error of a restart whose spawn failed, and the
\* guard was stopped holding the child the restart had reaped: the kill
\* of the stop went to a child already waited for, and the program ended
\* with run_ui's error.
C30_Witness ==
    /\ pc = "done"
    /\ exit_status = "err"
    /\ main_error = "run_ui"
    /\ kills = 2
    /\ waits = 2
    /\ guard_child = None
    /\ \E p \in Pids : /\ procs[p] = "reaped"
                       /\ \A q \in Pids \ {p} : procs[q] = "unborn"

\* C31: whatever the configuration, the three rolling averages of a session
\* have the window max(1, avg / max(interval, 1)), which is at least 1, and
\* a push into any of them stores the value pushed.
C31_WindowAtLeastOne ==
    pc = "session" =>
        \A r \in {app.cpu_avg, app.gpu_avg, app.package_avg} :
            /\ r.max_len = Max2(1, app.config.avg \div Max2(app.config.interval, 1))
            /\ r.max_len >= 1
            /\ Len(r.data) <= r.max_len
            /\ raw_sample # NoSample => Len(r.data) >= 1
            /\ \A v \in 0..MaxVal :
                  LET pushed == RollingAveragePush(r, v)
                  IN /\ pushed # r
                     /\ Len(pushed.data) >= 1
                     /\ pushed.data[Len(pushed.data)] = v

\* A session configured with interval 0 and avg 0 has taken a sample into
\* its averages.
C31_Witness ==
    /\ pc = "session"
    /\ app.config.interval = 0
    /\ app.config.avg = 0
    /\ raw_sample # NoSample
    /\ app.cpu_avg.max_len = 1
    /\ Len(app.cpu_avg.data) = 1
    /\ app.cpu_avg.data[1] = app.cpu_power
    /\ app.cpu_power > 0

\* A session configured with avg below the interval, likewise.
C31_WitnessShortAvg ==
    /\ pc = "session"
    /\ app.config.interval = 2
    /\ app.config.avg = 1
    /\ Len(app.package_avg.data) = 1

\* A poll has handed the session a reading that is no newer than the last
\* one taken.
Rejecting ==
    /\ pc = "collab"
    /\ raw_sample # NoSample
    /\ IsSome(app.last_timestamp)
    /\ raw_sample'.timestamp <= Unwrap(app.last_timestamp)

\* C32: a sample the dedup guard rejects leaves the whole session state as
\* it was, the timestamp, the count, the metrics, the thermal fields, the
\* memory and I/O stats, the averages, the peaks and the history, and none
\* of the collaborators is called for it.
C32_RejectedSampleNoEffect ==
    [][Rejecting =>
         /\ app' = app
         /\ calls' = calls
      ]_vars

\* Two samples were taken, each with its calls, and then one was rejected
\* that is older than the last, carries another label and another power
\* than the session shows.
C32_Witness ==
    /\ pc = "collab"
    /\ app.samples_taken = 2
    /\ calls = [memory |-> 3, thermal |-> 2, io |-> 2]
    /\ raw_sample.timestamp < Unwrap(app.last_timestamp)
    /\ raw_sample.thermal_pressure # app.thermal_pressure
    /\ convert_sample(raw_sample).cpu # app.cpu_metrics
    /\ Len(HistoryValues(app.power_history)) = 2

\* The level the claim gives for a raw warning code.
ClaimedLevel(code) ==
    CASE code = 0 -> "Normal"
      [] code = 5 \/ code = 100 -> "Danger"
      [] code = 10 \/ code = 110 -> "Crisis"
      [] OTHER -> "Unknown"

\* The label as the claim reads it: without the blanks and line ends
\* around it.
Bare(label) ==
    LET inner == {i \in 1..Len(label) : label[i] \notin WhiteSpace}
    IN IF inner = {} THEN <<>>
       ELSE SubSeq(label,
                   CHOOSE i \in inner : \A j \in inner : i <= j,
                   CHOOSE i \in inner : \A j \in inner : i >= j)

\* C38: once a sample was taken, the thermal_throttle flag of the snapshot
\* is, if the thermal query succeeded for the last sample taken, that the
\* level is not Normal, and if it failed, that the label of that sample
\* without the white space around it is not "Nominal"; the sample that is
\* taken sets the label and the level, the level being Normal for code 0,
\* Danger for 5 and 100, Crisis for 10 and 110 and Unknown for the rest
\* (no state enters into the mapping: it is gone through for every code as
\* the session takes its first sample).
C38_ThermalThrottle ==
    [][/\ (pc = "collab" /\ raw_sample # NoSample) =>
             thermal_throttle(app) =
                 IF app.thermal_level = None
                 THEN Bare(app.thermal_pressure) # Nominal
                 ELSE Unwrap(app.thermal_level).tag \in {"Danger", "Crisis", "Unknown"}
       /\ (pc = "collab" /\ app'.samples_taken > app.samples_taken) =>
             /\ app'.thermal_pressure = raw_sample'.thermal_pressure
             /\ \E answer \in ThermalAnswers :
                   app'.thermal_level =
                       IF answer.status = 0
                       THEN Some([tag |-> ClaimedLevel(answer.level),
                                  raw |-> IF ClaimedLevel(answer.level) = "Unknown"
                                          THEN answer.level ELSE 0])
                       ELSE None
       /\ (pc = "collab" /\ raw_sample = NoSample) =>
             \A code \in 0..MaxThermalCode :
                 /\ ThermalLevelFrom(code).tag = ClaimedLevel(code)
                 /\ is_throttled(ThermalLevelFrom(code)) <=> code # 0
      ]_vars

\* The query failed for the last sample taken, whose label is "Nominal"
\* between a blank and a line end: the flag is off.
C38_Witness ==
    /\ pc = "collab"
    /\ app.samples_taken = 2
    /\ app.thermal_level = None
    /\ app.thermal_pressure = <<" ">> \o Nominal \o <<"\n">>
    /\ ~thermal_throttle(app)

\* The query reported code 7 for the last sample taken, whose label is
\* "Nominal": the flag is on.
C38_WitnessUnknown ==
    /\ pc = "collab"
    /\ app.thermal_level = Some([tag |-> "Unknown", raw |-> 7])
    /\ app.thermal_pressure = Nominal
    /\ thermal_throttle(app)

\* C33 as stated: with max_count above 0, samples_taken is never above
\* max_count, and it is below max_count once the trigger was evaluated.
C33_NeverAboveMaxCount ==
    max_count > 0 =>
        /\ samples_taken <= max_count
        /\ pc = "draw" => samples_taken < max_count

\* The first iteration of a session with max_count = 1 has polled and
\* taken a sample on top of the one applied at startup; the restart is
\* about to come, or its spawn has failed and run_ui has returned.
FirstIterationOvershoot ==
    /\ max_count = 1
    /\ samples_taken = 2
    /\ \/ pc = "trigger" /\ kills = 0
       \/ pc = "stop" /\ kills = 1 /\ result = "err"

\* C33: with max_count above 0, samples_taken is never above max_count but
\* for the first iteration with max_count = 1, whose poll can take it to 2
\* before the trigger is evaluated; once the trigger was evaluated and the
\* loop goes on, it is below max_count, and so it is whenever an iteration
\* starts, but for the first with max_count = 1; the trigger that finds the
\* count at max_count or above restarts in that same iteration and, the
\* spawn succeeding, sets the count to 0.
C33_CountBounded ==
    [][/\ max_count > 0 =>
            /\ samples_taken <= max_count \/ FirstIterationOvershoot
            /\ pc = "draw" => samples_taken < max_count
            /\ pc \in {"input", "poll"} =>
                  \/ samples_taken < max_count
                  \/ max_count = 1 /\ samples_taken = 1 /\ kills = 0
       /\ (pc = "trigger" /\ max_count > 0 /\ samples_taken >= max_count
              /\ pc' \in {"draw", "stop"}) =>
            /\ kills' = kills + 1
            /\ pc' = "draw" => samples_taken' = 0
       /\ (pc = "poll" /\ pc' = "trigger" /\ max_count > 0
              /\ samples_taken' > samples_taken) =>
            samples_taken' = max_count \/ samples_taken' < max_count
                \/ FirstIterationOvershoot'
      ]_vars

\* The overshoot itself.
C33_Witness ==
    FirstIterationOvershoot /\ pc = "trigger" /\ accepted /\ polled.tag = "Some"

\* The poll loop finds the restart due and restarts.
Restarting ==
    /\ pc = "session"
    /\ raw_sample # NoSample
    /\ app.config.max_count > 0
    /\ app.samples_taken >= app.config.max_count
    /\ app' # app

\* C34: of the session state a restart changes samples_taken and
\* last_timestamp and nothing else: the metrics and the power figures, the
\* three averages with their buffers and sums, the three peaks and the
\* power history are what they were.
C34_RestartKeepsStatistics ==
    [][Restarting =>
         /\ app'.samples_taken = 0
         /\ app'.last_timestamp = None
         /\ app'.cpu_metrics = app.cpu_metrics
         /\ app'.gpu_metrics = app.gpu_metrics
         /\ <<app'.cpu_power, app'.gpu_power, app'.package_power,
              app'.ane_power, app'.ane_percent>>
              = <<app.cpu_power, app.gpu_power, app.package_power,
                  app.ane_power, app.ane_percent>>
         /\ \A f \in {"cpu_avg", "gpu_avg", "package_avg"} :
               /\ app'[f].data = app[f].data
               /\ app'[f].sum = app[f].sum
               /\ app'[f] = app[f]
         /\ <<app'.cpu_peak, app'.gpu_peak, app'.package_peak>>
              = <<app.cpu_peak, app.gpu_peak, app.package_peak>>
         /\ app'.power_history = app.power_history
         /\ \A f \in DOMAIN app \ {"samples_taken", "last_timestamp"} :
               app'[f] = app[f]
         /\ UNCHANGED <<raw_sample, calls>>
      ]_vars

\* A session with max_count = 2 has restarted after its second sample and
\* taken a third: the history and the averages hold all three.
C34_Witness ==
    /\ pc = "session"
    /\ app.config.max_count = 2
    /\ app.samples_taken = 1
    /\ Len(HistoryValues(app.power_history)) = 3
    /\ app.cpu_avg.max_len = 4
    /\ Len(app.cpu_avg.data) = 3
    /\ app.cpu_avg.sum = SumSeq(app.cpu_avg.data)
    /\ app.cpu_avg.sum > 0
    /\ app.package_peak > 0

\* run_ui has returned the error of a restart whose spawn failed: the
\* guard holds a child that was waited for.
RestartFailed ==
    /\ pc = "stop"
    /\ result = "err"
    /\ IsSome(guard_child)
    /\ procs[Unwrap(guard_child)] = "reaped"

\* C35: a restart whose spawn fails has killed and reaped the child there
\* was, so that no child is left alive; it leaves the extractor's token,
\* samples_taken and last_timestamp as they were and ends run_ui with its
\* error; main then stops the guard, restores the terminal and ends with
\* that error.
C35_FailedRestart ==
    [][/\ (pc = "trigger" /\ pc' = "stop") =>
            /\ max_count > 0 /\ samples_taken >= max_count
            /\ kills' = kills + 1
            /\ waits' = waits + 1
            /\ procs'[Unwrap(guard_child)] = "reaped"
            /\ Unreaped(procs') = {}
            /\ Unborn(procs') = Unborn(procs)
            /\ result' = "err"
            /\ RestartFailed'
            /\ UNCHANGED <<reader_timecode, samples_taken, last_timestamp,
                           guard_child, max_count>>
       /\ RestartFailed =>
            /\ pc' \in {"stop", "done"}
            /\ Unreaped(procs') = {}
            /\ (pc' = "done" /\ exit_status' # "panic") =>
                  /\ exit_status' = "err"
                  /\ main_error' = "run_ui"
                  /\ guard_child' = None
                  /\ "restored" \in created'
                  /\ kills' = kills + 1
      ]_vars

\* The restart's spawn has failed: main holds a new token, the extractor
\* the old one, and the session the count and the timestamp it had.
C35_Witness ==
    /\ RestartFailed
    /\ Unreaped(procs) = {}
    /\ max_count = 2
    /\ samples_taken = 2
    /\ last_timestamp # None
    /\ reader_timecode # timecode

\* The clusters and cores of the input as convert_snapshot classifies them.
Classified ==
    ClassifyFrom(nz_in.raw, 1, [e_clusters |-> <<>>, p_clusters |-> <<>>,
                                e_cores |-> <<>>, p_cores |-> <<>>])

\* What a class gets from its clusters cls when none of them is the
\* primary one and all of them count: the average of their active% and the
\* largest of their frequencies; active and freq are what was returned for
\* the class, cores its cores.
ClassFromClusters(cls, cores, prefix, active, freq) ==
    (/\ Len(cls) > 0
     /\ \A i \in 1..Len(cls) : cls[i].name # primary_label(prefix)) =>
        /\ MaxFreq(cls) > 0 => freq = MaxFreq(cls)
        /\ (SumActive(cls) \div Len(cls) > 0 /\ Len(cores) = 0) =>
              active = SumActive(cls) \div Len(cls)

\* C36: the clusters convert_snapshot classifies as efficiency, and those
\* it classifies as performance, are the clusters the aggregation of that
\* class goes by: with no primary cluster among them, the class has the
\* largest of their frequencies, if above 0, and, having no cores, the
\* average of their active%, if above 0.
C36_ClassesAgree ==
    ConvertApplied =>
        /\ ClassFromClusters(Classified.e_clusters, Classified.e_cores, "E",
                             nz_out.cpu.e_cluster_active,
                             nz_out.cpu.e_cluster_freq_mhz)
        /\ ClassFromClusters(Classified.p_clusters, Classified.p_cores, "P",
                             nz_out.cpu.p_cluster_active,
                             nz_out.cpu.p_cluster_freq_mhz)

RateLimited ==
    /\ IsSome(io.sampler.last_instant)
    /\ io'.now - Unwrap(io.sampler.last_instant) < MIN_SAMPLE_INTERVAL
FirstCall == ~IsSome(io.sampler.last_instant)
NetCompared == ~RateLimited /\ IsSome(io.sampler.last_net) /\ IsSome(io'.net)
DiskCompared == ~RateLimited /\ IsSome(io.sampler.last_disk) /\ IsSome(io'.disk)
C37_SampleRateLimited ==
    [][(pc = "io" /\ io'.n = io.n + 1) =>
          /\ RateLimited =>
                /\ io'.sampler = io.sampler
                /\ io'.ret = io.sampler.current
                /\ io'.reads = io.reads
          /\ FirstCall =>
                /\ io'.reads = io.reads + 1
                /\ io'.sampler.last_net = io'.net
                /\ io'.sampler.last_disk = io'.disk
                /\ io'.sampler.last_instant = Some(io'.now)
                /\ io'.sampler.current = IoZero
                /\ io'.ret = IoZero
          /\ (NetCompared /\ Unwrap(io'.net)[1] <= Unwrap(io.sampler.last_net)[1])
                => io'.ret.net_in_mbps = 0
          /\ (NetCompared /\ Unwrap(io'.net)[2] <= Unwrap(io.sampler.last_net)[2])
                => io'.ret.net_out_mbps = 0
          /\ (DiskCompared /\ Unwrap(io'.disk)[1] <= Unwrap(io.sampler.last_disk)[1])
                => io'.ret.disk_read_mbps = 0
          /\ (DiskCompared /\ Unwrap(io'.disk)[2] <= Unwrap(io.sampler.last_disk)[2])
                => io'.ret.disk_write_mbps = 0
          /\ io'.ret.net_in_mbps >= 0 /\ io'.ret.net_out_mbps >= 0
          /\ io'.ret.disk_read_mbps >= 0 /\ io'.ret.disk_write_mbps >= 0
          /\ io'.ret = io'.sampler.current]_vars

\* Three calls: the first one, a real sampling that found the received
\* bytes gone up, and a rate-limited one that returned that rate again.
C37_Witness ==
    /\ pc = "io"
    /\ io.n = 3
    /\ io.reads = 2
    /\ io.ret.net_in_mbps > 0
    /\ io.sampler.last_net # io.net

\* A real sampling that found the received bytes gone down and the sent
\* bytes gone up: rate 0 for the one and a positive rate for the other.
C37_WitnessDecrease ==
    /\ pc = "io"
    /\ io.reads = 2
    /\ io.n = 2
    /\ io.net = Some(<<2, 4>>)
    /\ io.ret.net_in_mbps = 0
    /\ io.ret.net_out_mbps > 0

====
